---- MODULE Spec2Model ----
(***************************************************************************)
(* Democracy Clock V4, step 2: the date-window resolvers, the LLM          *)
(* extraction orchestrator with its compliance scan and single retry, the  *)
(* canonical block parser, the per-source builders and the one-shot        *)
(* get -> build -> write runner.                                           *)
(*                                                                         *)
(* Dates are proleptic Gregorian ordinals (datetime.date.toordinal), so    *)
(* that timedelta arithmetic is integer arithmetic and weekday() is        *)
(* (ordinal + 6) % 7 with Monday = 0.                                      *)
(***************************************************************************)
EXTENDS Integers, Sequences, FiniteSets, TLC

VARIABLES
    wargs,      \* window arguments as parsed from the command line
    wShared,    \* outcome of step2_helper_v4.resolve_date_window
    wFromStart, \* outcome of step2_v4._compute_window_from_start
    wFromWeek,  \* outcome of step2_v4._compute_window_from_week
    stext,      \* a reply text handed to the scan and to the parsers
    sStep,      \* how many of the three functions have been applied to it
    sNeeds,     \* result of _needs_schema_retry(stext)
    sHelper,    \* result of builder_helper._parse_llm_events_canonical(stext)
    sLocal,     \* result of the shadow builder's _parse_llm_events_canonical
    bKind,      \* the builder that runs: "hcr" or "shadow"
    apiKey,     \* OPENAI_API_KEY is set in the environment
    items,      \* the selected items, each the extractor it goes to
    cur,        \* run_builder's position in the item loop
    pc,         \* where the builder / the extractor stands
    out_text,   \* the extractor's out_text
    xrec,       \* history of the extraction in progress
    xlog,       \* history of the finished extractions, one per item
    results,    \* run_builder's results list
    ppos,       \* run_builder's position in the parse loop
    noncompliant, \* run_builder's noncompliant list
    all_events, \* run_builder's all_events list
    envelope,   \* the event envelope on disk for this source and window
    rWindowOk,  \* the one-shot run's window arguments resolve
    rSelected,  \* the selected source keys, in order
    rStage,     \* stage of the one-shot run: "get", "build", "write", "done"
    rKey,       \* position in rSelected within the stage
    rPage,      \* pages the running harvester has fetched
    rItem,      \* items the running builder has processed (-1: not loaded)
    rOk,        \* ok lists of the harvest and the build orchestrator
    rFailed,    \* failed lists of the harvest and the build orchestrator
    rEventJson, \* per-source event files on disk for this window
    rErrors,    \* history: the errors met so far, by stage, source and kind
    rRc,        \* return codes of the three steps (-1: not decided yet)
    rExit,      \* exit status of the one-shot run (-1: still running)
    hRaw,       \* the raw items a harvester discovered, in discovery order
    hKind,      \* the harvester that ran ("none": not yet)
    hSeen,      \* the items the harvester counts as seen
    hKept,      \* the items kept by the window filter
    hOut,       \* the entities of the filtered output
    hStats,     \* the window statistics the harvester reports
    mInput,     \* the events of the selected envelopes, in file order
    mStrict,    \* the writer's --strict option
    mStage,     \* where the writer's main stands
    all_rows,   \* the writer's all_rows list
    mIndex,     \* the master index JSON on disk
    mWeekly,    \* the weekly index JSON files on disk, by week number
    tValues,    \* the known values a canonical block is built from
    tStep,      \* "values", "built" or "parsed"
    tBlock,     \* the canonical text block built from tValues
    tEvents,    \* the events the parser returns for tBlock
    aBuilder,   \* the builder that wrote the envelope ("none": found on disk)
    aLine,      \* the attacks line of a reply block, if it has one
    aStep,      \* how far the attacks value has travelled
    aEvent,     \* the attacks of the event in the builder's memory
    aStored,    \* the attacks of the event in the envelope
    aIndexed,   \* the attacks of the event in the master index
    uSelected,  \* the sources the build runner selected, in order
    uWorld,     \* what each source's builder meets when it runs
    uPos,       \* the position of the next source to build
    uOk,        \* the runner's ok list
    uFailed,    \* the runner's failed list
    uExit,      \* the runner's exit code, once it has returned
    dConfig,    \* the configured log policy and sample rate
    dItem,      \* what happens to the item, and the random draw
    dWriter,    \* the _DebugWriter of the extraction
    dFiles,     \* the suffixes of the artifacts on disk
    dStep,      \* how far the extraction has come
    kDate,      \* the date whose week is asked for
    kWeek,      \* what dc_week_for returned for it
    kWindow,    \* what resolve_date_window returned for that week number
    kStep,      \* how far the comparison has come
    cKind,      \* the builder that accounts for its items
    cItems,     \* the items selected for processing
    cPos,       \* the position of the loop that is running
    cResults,   \* the texts the first loop collected
    cEvents,    \* the item index of every event of the envelope
    cNoncompliant,  \* the noncompliant list
    cStep,      \* the loop that is running
    lKind,      \* the harvester whose page walk runs
    lPage,      \* the pages requested so far, up to MaxWalk
    lParity,    \* the requests made so far, modulo 2
    lLast,      \* the server's answer to the last request
    lStep,      \* "walking" or "done"
    oOnly,      \* the --only of the one-shot run
    oSkip,      \* the --skip of the one-shot run
    oDisk,      \* the sources with an event file for the window on disk
    oHarvested, \* the sources the harvest stage resolved
    oBuilt,     \* the sources the build stage resolved
    oMerged,    \* the sources whose events the master log holds
    oStep       \* the stage that runs next

windowVars == <<wargs, wShared, wFromStart, wFromWeek>>

scanVars == <<stext, sStep, sNeeds, sHelper, sLocal>>

extractVars == <<bKind, apiKey, items, cur, pc, out_text, xrec, xlog,
                 results, ppos, noncompliant, all_events, envelope>>

runVars == <<rWindowOk, rSelected, rStage, rKey, rPage, rItem, rOk, rFailed,
             rEventJson, rErrors, rRc, rExit>>

harvestVars == <<hRaw, hKind, hSeen, hKept, hOut, hStats>>

mergeVars == <<mInput, mStrict, mStage, all_rows, mIndex, mWeekly>>

roundTripVars == <<tValues, tStep, tBlock, tEvents>>

attacksVars == <<aBuilder, aLine, aStep, aEvent, aStored, aIndexed>>

buildRunnerVars == <<uSelected, uWorld, uPos, uOk, uFailed, uExit>>

debugVars == <<dConfig, dItem, dWriter, dFiles, dStep>>

weekOfDateVars == <<kDate, kWeek, kWindow, kStep>>

accountVars == <<cKind, cItems, cPos, cResults, cEvents, cNoncompliant, cStep>>

walkVars == <<lKind, lPage, lParity, lLast, lStep>>

selectVars == <<oOnly, oSkip, oDisk, oHarvested, oBuilt, oMerged, oStep>>

vars == <<windowVars, scanVars, extractVars, runVars, harvestVars, mergeVars, roundTripVars, attacksVars, buildRunnerVars, debugVars, weekOfDateVars, accountVars, walkVars, selectVars>>

(***************************************************************************)
(* Optional values: None is the empty set, a given value v is {v}.         *)
(***************************************************************************)
Opt(S) == {{}} \cup {{x} : x \in S}

Given(o) == o # {}

Val(o) == CHOOSE x \in o : TRUE

(***************************************************************************)
(* Part 1. Window resolvers                                                *)
(***************************************************************************)

\* bounds of the explored argument space
MaxDayOffset == 5
MaxWeeks == 3
MaxWeekNo == 4

INAUGURATION_DAY == 739271

FIRST_FRIDAY == 739275

FIRST_SATURDAY == 739276

W1_START == 739271

W1_END == 739275

W2_START == 739276

\* datetime.date.weekday(): Monday = 0 ... Sunday = 6
weekday(d) == (d + 6) % 7

Dates == (INAUGURATION_DAY - 1) .. (INAUGURATION_DAY + MaxDayOffset)

\* A date argument is a string: either an ISO date (ok, with its ordinal) or
\* text that date.fromisoformat / int() rejects with ValueError.
DateStrs == {[ok |-> TRUE, d |-> x] : x \in Dates}
              \cup {[ok |-> FALSE, d |-> INAUGURATION_DAY]}

WeeksArgs == -1 .. MaxWeeks

WeekArgs == -1 .. MaxWeekNo

WArgs == [start : Opt(DateStrs), end : Opt(DateStrs),
          weeks : Opt(WeeksArgs), week : Opt(WeekArgs)]

\* outcome of a resolver call
NotCalled == [st |-> "none", start |-> 0, end |-> 0]

Raised == [st |-> "raised", start |-> 0, end |-> 0]

Window(s, e) == [st |-> "window", start |-> s, end |-> e]

\* Python truthiness of an optional int / optional string argument
Truthy(o) == Given(o) /\ Val(o) # 0

resolve_date_window(start, end, weeks, week) ==
    IF Given(start)
    THEN IF ~Val(start).ok THEN Raised
         ELSE IF Given(end)
              THEN IF ~Val(end).ok THEN Raised
                   ELSE Window(Val(start).d, Val(end).d)
              ELSE IF Truthy(weeks)
                   THEN IF Val(weeks) < 1 THEN Raised
                        ELSE Window(Val(start).d, Val(start).d + (7 * Val(weeks) - 1))
                   ELSE Raised
    ELSE IF Truthy(week)
         THEN IF Val(week) < 1 THEN Raised
              ELSE LET start_d == IF Val(week) = 1 THEN INAUGURATION_DAY
                                  ELSE FIRST_SATURDAY + (Val(week) - 2) * 7
                       end_1 == IF Val(week) = 1 THEN FIRST_FRIDAY
                                ELSE start_d + 6
                       end_d == IF Truthy(weeks) /\ Val(weeks) > 1
                                THEN end_1 + 7 * (Val(weeks) - 1)
                                ELSE end_1
                   IN Window(start_d, end_d)
         ELSE Raised

_compute_window_from_start(start_str, weeks, end_str) ==
    IF ~start_str.ok THEN Raised
    ELSE IF Given(weeks)
         THEN Window(start_str.d, start_str.d + (Val(weeks) * 7 - 1))
         ELSE IF ~Given(end_str) THEN Raised
              ELSE IF ~Val(end_str).ok THEN Raised
                   ELSE IF Val(end_str).d < start_str.d THEN Raised
                        ELSE Window(start_str.d, Val(end_str).d)

\* variant: the multi-week end computed as start + weeks*7, one day long
_compute_window_from_week_day_long(week, weeks) ==
    IF week < 1 THEN Raised
    ELSE LET start == IF week = 1 THEN W1_START ELSE W2_START + (week - 2) * 7
             end_1 == IF week = 1 THEN W1_END ELSE start + 6
             end == IF Truthy(weeks) /\ Val(weeks) > 1
                    THEN start + (Val(weeks) * 7)
                    ELSE end_1
         IN Window(start, end)

_compute_window_from_week(week, weeks) ==
    IF week < 1 THEN Raised
    ELSE LET start == IF week = 1 THEN W1_START ELSE W2_START + (week - 2) * 7
             end_1 == IF week = 1 THEN W1_END ELSE start + 6
             end == IF Truthy(weeks) /\ Val(weeks) > 1
                    THEN start + (Val(weeks) * 7 - 1)
                    ELSE end_1
         IN Window(start, end)

WindowInit ==
    /\ wargs \in WArgs
    /\ wShared = NotCalled
    /\ wFromStart = NotCalled
    /\ wFromWeek = NotCalled

\* getweekevents/buildweekevents main: the shared resolver on the CLI arguments
CallResolveDateWindow ==
    /\ wShared = NotCalled
    /\ wShared' = resolve_date_window(wargs.start, wargs.end, wargs.weeks, wargs.week)
    /\ UNCHANGED <<wargs, wFromStart, wFromWeek>>
    /\ UNCHANGED <<scanVars, extractVars, runVars, harvestVars, mergeVars, roundTripVars, attacksVars, buildRunnerVars, debugVars, weekOfDateVars, accountVars, walkVars, selectVars>>

\* step2_v4.main, --start path
CallComputeWindowFromStart ==
    /\ wFromStart = NotCalled
    /\ Given(wargs.start)
    /\ ~Given(wargs.week)
    /\ wFromStart' = _compute_window_from_start(Val(wargs.start), wargs.weeks, wargs.end)
    /\ UNCHANGED <<wargs, wShared, wFromWeek>>
    /\ UNCHANGED <<scanVars, extractVars, runVars, harvestVars, mergeVars, roundTripVars, attacksVars, buildRunnerVars, debugVars, weekOfDateVars, accountVars, walkVars, selectVars>>

\* step2_v4.main, --week path
CallComputeWindowFromWeek ==
    /\ wFromWeek = NotCalled
    /\ ~Given(wargs.start)
    /\ Given(wargs.week)
    /\ wFromWeek' = _compute_window_from_week(Val(wargs.week), wargs.weeks)
    /\ UNCHANGED <<wargs, wShared, wFromStart>>
    /\ UNCHANGED <<scanVars, extractVars, runVars, harvestVars, mergeVars, roundTripVars, attacksVars, buildRunnerVars, debugVars, weekOfDateVars, accountVars, walkVars, selectVars>>

WindowNext ==
    \/ CallResolveDateWindow
    \/ CallComputeWindowFromStart
    \/ CallComputeWindowFromWeek

(***************************************************************************)
(* Part 2. Reply texts, the compliance scan and the canonical parsers      *)
(*                                                                         *)
(* A text is a sequence of lines; a line is a label token at the start of  *)
(* the line followed by the rest of the line (val).  Free text has the     *)
(* empty label, a blank line has both empty.  The regular expressions of   *)
(* the source are evaluated on these tokens.                               *)
(***************************************************************************)

Line(lab, val) == [lab |-> lab, val |-> val]

IsBlank(ln) == ln.lab = "" /\ ln.val = ""

\* header lines: plain, with the leading === marker, and with an ASCII
\* hyphen in place of the em dash (U+2014, written <EM DASH> here)
HdrPlain == Line("2025-01-21 <EM DASH>", "T")

HdrMarked == Line("=== 2025-01-21 <EM DASH>", "T")

HdrHyphen == Line("2025-01-21 -", "T")

LnSummary == Line("Summary:", "s")

LnSource == Line("Source:", "https://u")

LnCategory == Line("Category:", "c")

LnCategoryLower == Line("category:", "c")

LnCategoryEmpty == Line("Category:", "")

LnWhy == Line("Why Relevant:", "w")

LnWhyLower == Line("why relevant:", "w")

LnAttacksCanon == Line("attacks:", "[]")

LnAttacksCap == Line("Attacks:", "[a]")

LnAttacksQuoted == Line("\"attacks\":", "[a]")

LnAttacksUpper == Line("ATTACKS:", "[a]")

LnTotal == Line("Total events found:", "[1]")

LnFooter == Line("[END OF LOG]", "")

LnBlank == Line("", "")

LnProse == Line("", "No qualifying events.")

LnRetrySentinel == Line("", "RETRY_SCHEMA")

\* str.lower() on the label tokens in use
Lower(lab) ==
    CASE lab = "Category:" -> "category:"
      [] lab = "Why Relevant:" -> "why relevant:"
      [] lab = "Attacks:" -> "attacks:"
      [] lab = "ATTACKS:" -> "attacks:"
      [] lab = "\"attacks\":" -> "\"attacks\":"
      [] lab = "Summary:" -> "summary:"
      [] lab = "Source:" -> "source:"
      [] lab = "Total events found:" -> "total events found:"
      [] lab = "[END OF LOG]" -> "[end of log]"
      [] OTHER -> lab

\* str.strip() of a text: leading and trailing blank lines go
RECURSIVE LStrip(_)
LStrip(t) == IF t = <<>> THEN <<>>
             ELSE IF IsBlank(Head(t)) THEN LStrip(Tail(t)) ELSE t

RECURSIVE RStrip(_)
RStrip(t) == IF t = <<>> THEN <<>>
             ELSE IF IsBlank(t[Len(t)]) THEN RStrip(SubSeq(t, 1, Len(t) - 1)) ELSE t

Strip(t) == RStrip(LStrip(t))

\* "^<Label>:\s*.+$" with re.M and no re.I: the label must start the line
\* in exactly this case; \s* also crosses newlines, so an empty value is
\* accepted when some later line is non-empty.
LabelLineCount(text, label) ==
    Cardinality({i \in 1 .. Len(text) :
        /\ text[i].lab = label
        /\ \/ text[i].val # ""
           \/ \E j \in (i + 1) .. Len(text) : ~IsBlank(text[j])})

_preparse_compliance_scan(text) ==
    [has_footer_end_of_log |-> \E i \in 1 .. Len(text) : text[i].lab = "[END OF LOG]",
     count_category_lines |-> LabelLineCount(text, "Category:"),
     count_why_lines |-> LabelLineCount(text, "Why Relevant:"),
     count_attacks_lines |-> LabelLineCount(text, "Attacks:")]

_needs_schema_retry(reply) ==
    IF Strip(reply) = <<>> THEN TRUE
    ELSE LET comp == _preparse_compliance_scan(reply) IN
         IF ~comp.has_footer_end_of_log THEN TRUE
         ELSE IF comp.count_category_lines = 0 THEN TRUE
         ELSE IF comp.count_why_lines = 0 THEN TRUE
         ELSE IF comp.count_attacks_lines = 0 THEN TRUE
         ELSE FALSE

\* builder_helper _HEADER_RE: optional === marker, date, em dash, title
IsHeaderHelper(ln) ==
    /\ ln.lab \in {"2025-01-21 <EM DASH>", "=== 2025-01-21 <EM DASH>"}
    /\ ln.val # ""

\* the builders' own _HDR_RE: date, em dash, title; no marker
IsHeaderLocal(ln) == ln.lab = "2025-01-21 <EM DASH>"

\* _ATK_RE: ^"?attacks"?\s*:\s*(.+)$ with re.I, on one line
IsAttacksLine(ln) ==
    /\ Lower(ln.lab) \in {"attacks:", "\"attacks\":"}
    /\ ln.val # ""

HeaderIdxHelper(text) == {i \in 1 .. Len(text) : IsHeaderHelper(text[i])}

HeaderIdxLocal(text) == {i \in 1 .. Len(text) : IsHeaderLocal(text[i])}

\* last line of the block that starts at header line i
BlockEnd(text, hs, i) ==
    IF \E j \in hs : j > i
    THEN (CHOOSE j \in hs : j > i /\ \A k \in hs : k > i => j <= k) - 1
    ELSE Len(text)

\* the lines of the block (i, e] the helper parser takes for a field:
\* line.startswith(label), case-sensitive
HelperField(text, i, e, label) == {j \in (i + 1) .. e : text[j].lab = label}

\* the lines of the block (i, e] the shadow parser takes for a field:
\* ^Label:\s*(.+)$ with re.IGNORECASE, so a value is required
LocalField(text, i, e, label) ==
    {j \in (i + 1) .. e : Lower(text[j].lab) = label /\ text[j].val # ""}

AttacksField(text, i, e) == {j \in (i + 1) .. e : IsAttacksLine(text[j])}

\* value of the last line among the lines c, "" if there is none
LastValue(text, c) ==
    IF c = {} THEN ""
    ELSE text[CHOOSE j \in c : \A k \in c : k <= j].val

HelperEvent(text, hs, i) ==
    LET e == BlockEnd(text, hs, i) IN
    [date |-> "2025-01-21",
     title |-> text[i].val,
     summary |-> LastValue(text, HelperField(text, i, e, "Summary:")),
     category |-> LastValue(text, HelperField(text, i, e, "Category:")),
     why_relevant |-> LastValue(text, HelperField(text, i, e, "Why Relevant:")),
     attacks |-> LastValue(text, AttacksField(text, i, e))]

LocalEvent(text, hs, i) ==
    LET e == BlockEnd(text, hs, i) IN
    [date |-> "2025-01-21",
     title |-> text[i].val,
     summary |-> LastValue(text, LocalField(text, i, e, "summary:")),
     category |-> LastValue(text, LocalField(text, i, e, "category:")),
     why_relevant |-> LastValue(text, LocalField(text, i, e, "why relevant:")),
     attacks |-> LastValue(text, AttacksField(text, i, e))]

\* the k-th header line, in text order
NthHeader(hs, k) == CHOOSE i \in hs : Cardinality({j \in hs : j <= i}) = k

\* step2_builder_helper_v4._parse_llm_events_canonical (used by the hcr builder)
ParseHelper(text) ==
    IF Strip(text) = <<>> THEN <<>>
    ELSE LET hs == HeaderIdxHelper(text) IN
         [k \in 1 .. Cardinality(hs) |-> HelperEvent(text, hs, NthHeader(hs, k))]

\* step2_buildballotpedia_shadow_v4._parse_llm_events_canonical
ParseLocal(text) ==
    LET hs == HeaderIdxLocal(text) IN
    [k \in 1 .. Cardinality(hs) |-> LocalEvent(text, hs, NthHeader(hs, k))]


\* bound on the length of the texts explored
MaxLines == 4

ScanLines == {HdrPlain, HdrMarked, LnCategory, LnCategoryEmpty, LnWhy,
              LnAttacksCanon, LnAttacksCap, LnFooter, LnProse}

Texts == UNION {[1 .. n -> ScanLines] : n \in 0 .. MaxLines}

ScanInit ==
    /\ stext \in Texts
    /\ sStep = 0
    /\ sNeeds = {}
    /\ sHelper = <<>>
    /\ sLocal = <<>>

CallNeedsSchemaRetry ==
    /\ sStep = 0
    /\ sNeeds' = {_needs_schema_retry(stext)}
    /\ sStep' = 1
    /\ UNCHANGED <<stext, sHelper, sLocal>>
    /\ UNCHANGED <<windowVars, extractVars, runVars, harvestVars, mergeVars, roundTripVars, attacksVars, buildRunnerVars, debugVars, weekOfDateVars, accountVars, walkVars, selectVars>>

CallParseHelper ==
    /\ sStep = 1
    /\ sHelper' = ParseHelper(stext)
    /\ sStep' = 2
    /\ UNCHANGED <<stext, sNeeds, sLocal>>
    /\ UNCHANGED <<windowVars, extractVars, runVars, harvestVars, mergeVars, roundTripVars, attacksVars, buildRunnerVars, debugVars, weekOfDateVars, accountVars, walkVars, selectVars>>

CallParseLocal ==
    /\ sStep = 2
    /\ sLocal' = ParseLocal(stext)
    /\ sStep' = 3
    /\ UNCHANGED <<stext, sNeeds, sHelper>>
    /\ UNCHANGED <<windowVars, extractVars, runVars, harvestVars, mergeVars, roundTripVars, attacksVars, buildRunnerVars, debugVars, weekOfDateVars, accountVars, walkVars, selectVars>>

ScanNext ==
    \/ CallNeedsSchemaRetry
    \/ CallParseHelper
    \/ CallParseLocal


(***************************************************************************)
(* Part 3. The extraction orchestrator inside a builder's item loop        *)
(***************************************************************************)

\* bound on the number of items a builder run processes
MaxItems == 2

\* replies of the completion service, as call_openai returns them (stripped)
ReplyEmpty == <<>>

ReplyCompliant == <<HdrPlain, LnCategory, LnWhy, LnAttacksCap, LnFooter>>

ReplyTruncated == <<HdrPlain, LnCategory, LnWhy, LnAttacksCap>>

ReplyProse == <<LnProse>>

ReplySentinel == <<LnRetrySentinel>>

\* first replies: empty, compliant, cut before the footer, prose without any
\* block, the retry sentinel
ReplyPool == {ReplyEmpty, ReplyCompliant, ReplyTruncated, ReplyProse, ReplySentinel}

\* retry replies: one that passes the scan, two that fail it
RetryPool == {ReplyCompliant, ReplyTruncated, ReplyEmpty}

\* the failure strings of the source
FetchFailedText == <<Line("", "(Fetch failed for URL with RC)")>>

NoTextText == <<Line("", "(no text to extract)")>>

CatchText(kind) == IF kind = "hcr"
                   THEN <<Line("", "(LLM extraction failed: e)")>>
                   ELSE <<Line("", "(Extraction error: e)")>>

\* raw.startswith("(Extraction error:")
StartsWithExtractionError(raw) == raw = CatchText("shadow")

\* variant: the retry decided on the sentinel alone, the scan ignored
need_retry_sentinel_only(t) == Strip(t) = ReplySentinel

\* extract_events_from_url / _text: the retry decision on the first reply
need_retry(t) == Strip(t) = ReplySentinel \/ _needs_schema_retry(t)

\* variant: the retry reply taken without scanning it
accept_retry_unscanned(r) == TRUE

\* the retry reply replaces out_text only when it passes the scan
accept_retry(r) == ~_needs_schema_retry(r)

FreshRec(mode, fetch) ==
    [mode |-> mode, fetch |-> fetch, calls |-> 0, first |-> {}, retry |-> {},
     replaced |-> 0, outcome |-> "running", returned |-> {}]

IdleRec == FreshRec("none", "na")

ExtractInit ==
    /\ bKind \in {"hcr", "shadow"}
    /\ apiKey \in BOOLEAN
    /\ items \in UNION {[1 .. n -> {"url", "text"}] : n \in 1 .. MaxItems}
    /\ cur = 1
    /\ pc = "item"
    /\ out_text = <<>>
    /\ xrec = IdleRec
    /\ xlog = <<>>
    /\ results = <<>>
    /\ ppos = 1
    /\ noncompliant = <<>>
    /\ all_events = <<>>
    /\ envelope = [written |-> FALSE, events |-> <<>>,
                   has_noncompliant |-> FALSE, noncompliant |-> <<>>]

\* run_builder stores the item's events_text and moves to the next item
StoreResult(rec, text) ==
    /\ results' = Append(results, [idx |-> cur, events_text |-> text])
    /\ xlog' = Append(xlog, rec)
    /\ xrec' = IdleRec
    /\ out_text' = <<>>
    /\ cur' = cur + 1
    /\ pc' = IF cur + 1 > Len(items) THEN "parse" ELSE "item"

\* the extractor returns text to run_builder
ExtractorReturns(rec, text) ==
    StoreResult([rec EXCEPT !.outcome = "returned", !.returned = {text}], text)

\* variant: run_builder without the per-item except; the exception ends
\* the item loop and the builder
ExtractorRaisesUncaught(rec) ==
    /\ xlog' = Append(xlog, [rec EXCEPT !.outcome = "raised"])
    /\ xrec' = IdleRec
    /\ out_text' = <<>>
    /\ pc' = "done"
    /\ UNCHANGED <<results, cur>>

\* call_openai raises inside the extractor: nothing catches it there, the
\* exception reaches run_builder's "except Exception", which stores its own
\* failure string for the item
ExtractorRaises(rec) ==
    StoreResult([rec EXCEPT !.outcome = "raised"], CatchText(bKind))

\* extract_events_from_url up to the completion call: fetch_article_text
BeginUrl ==
    /\ pc = "item" /\ cur <= Len(items) /\ items[cur] = "url"
    /\ \E fetched \in BOOLEAN :
         IF fetched
         THEN /\ xrec' = FreshRec("url", "ok")
              /\ pc' = "call1"
              /\ UNCHANGED <<out_text, xlog, results, cur>>
         ELSE ExtractorReturns(FreshRec("url", "failed"), FetchFailedText)
    /\ UNCHANGED <<bKind, apiKey, items, ppos, noncompliant, all_events, envelope>>
    /\ UNCHANGED <<windowVars, scanVars, runVars, harvestVars, mergeVars, roundTripVars, attacksVars, buildRunnerVars, debugVars, weekOfDateVars, accountVars, walkVars, selectVars>>

\* extract_events_from_text up to the completion call: the empty-text guard
\* (the hcr transcript fetch returns '' on failure; the shadow builder's
\* synthetic text is never empty)
BeginText ==
    /\ pc = "item" /\ cur <= Len(items) /\ items[cur] = "text"
    /\ \E hasText \in (IF bKind = "hcr" THEN BOOLEAN ELSE {TRUE}) :
         IF hasText
         THEN /\ xrec' = FreshRec("text", "na")
              /\ pc' = "call1"
              /\ UNCHANGED <<out_text, xlog, results, cur>>
         ELSE ExtractorReturns(FreshRec("text", "na"), NoTextText)
    /\ UNCHANGED <<bKind, apiKey, items, ppos, noncompliant, all_events, envelope>>
    /\ UNCHANGED <<windowVars, scanVars, runVars, harvestVars, mergeVars, roundTripVars, attacksVars, buildRunnerVars, debugVars, weekOfDateVars, accountVars, walkVars, selectVars>>

\* the first call_openai and the retry decision taken on its reply
FirstCall ==
    /\ pc = "call1"
    /\ \/ /\ ~apiKey
          /\ ExtractorRaises(xrec)
       \/ /\ apiKey
          /\ ExtractorRaises([xrec EXCEPT !.calls = @ + 1])
       \/ /\ apiKey
          /\ \E t \in ReplyPool :
               /\ xrec' = [xrec EXCEPT !.calls = @ + 1, !.first = {t}]
               /\ out_text' = t
               /\ pc' = IF need_retry(t) THEN "call2" ELSE "return"
          /\ UNCHANGED <<xlog, results, cur>>
    /\ UNCHANGED <<bKind, apiKey, items, ppos, noncompliant, all_events, envelope>>
    /\ UNCHANGED <<windowVars, scanVars, runVars, harvestVars, mergeVars, roundTripVars, attacksVars, buildRunnerVars, debugVars, weekOfDateVars, accountVars, walkVars, selectVars>>

\* the single retry: second call_openai on the conversation plus the
\* corrective instruction
RetryCall ==
    /\ pc = "call2"
    /\ \/ ExtractorRaises([xrec EXCEPT !.calls = @ + 1])
       \/ /\ \E r \in RetryPool :
               /\ xrec' = [xrec EXCEPT !.calls = @ + 1, !.retry = {r},
                                       !.replaced = IF accept_retry(r) THEN @ + 1 ELSE @]
               /\ out_text' = IF accept_retry(r) THEN Strip(r) ELSE out_text
               /\ pc' = "return"
          /\ UNCHANGED <<xlog, results, cur>>
    /\ UNCHANGED <<bKind, apiKey, items, ppos, noncompliant, all_events, envelope>>
    /\ UNCHANGED <<windowVars, scanVars, runVars, harvestVars, mergeVars, roundTripVars, attacksVars, buildRunnerVars, debugVars, weekOfDateVars, accountVars, walkVars, selectVars>>

\* return (out_text or "").strip()
ReturnText ==
    /\ pc = "return"
    /\ ExtractorReturns(xrec, Strip(out_text))
    /\ UNCHANGED <<bKind, apiKey, items, ppos, noncompliant, all_events, envelope>>
    /\ UNCHANGED <<windowVars, scanVars, runVars, harvestVars, mergeVars, roundTripVars, attacksVars, buildRunnerVars, debugVars, weekOfDateVars, accountVars, walkVars, selectVars>>

\* variant: the parsed events never reach all_events
TaggedDropped(idx, evs) == <<>>

Tagged(idx, evs) == [k \in 1 .. Len(evs) |-> [idx |-> idx, ev |-> evs[k]]]

Reason(idx, why) == [idx |-> idx, reason |-> why]

\* one turn of run_builder's parse loop (hcr builder)
ParseItemHcr ==
    /\ pc = "parse" /\ ppos <= Len(results) /\ bKind = "hcr"
    /\ LET rec == results[ppos]
           raw == Strip(rec.events_text)
           evs == ParseHelper(raw)
       IN IF raw = <<>>
          THEN /\ noncompliant' = Append(noncompliant, Reason(rec.idx, "empty_output"))
               /\ UNCHANGED all_events
          ELSE IF evs = <<>>
               THEN /\ noncompliant' = Append(noncompliant, Reason(rec.idx, "no_blocks_parsed"))
                    /\ UNCHANGED all_events
               ELSE /\ all_events' = all_events \o Tagged(rec.idx, evs)
                    /\ UNCHANGED noncompliant
    /\ ppos' = ppos + 1
    /\ UNCHANGED <<bKind, apiKey, items, cur, pc, out_text, xrec, xlog, results, envelope>>
    /\ UNCHANGED <<windowVars, scanVars, runVars, harvestVars, mergeVars, roundTripVars, attacksVars, buildRunnerVars, debugVars, weekOfDateVars, accountVars, walkVars, selectVars>>

\* one turn of run_builder's parse loop (shadow builder)
ParseItemShadow ==
    /\ pc = "parse" /\ ppos <= Len(results) /\ bKind = "shadow"
    /\ LET rec == results[ppos]
           raw == Strip(rec.events_text)
           evs == ParseLocal(raw)
       IN IF raw = <<>> \/ StartsWithExtractionError(raw)
          THEN /\ noncompliant' = Append(noncompliant, Reason(rec.idx, "no_blocks"))
               /\ UNCHANGED all_events
          ELSE /\ noncompliant' = IF evs = <<>>
                                  THEN Append(noncompliant, Reason(rec.idx, "no_blocks"))
                                  ELSE noncompliant
               /\ all_events' = all_events \o Tagged(rec.idx, evs)
    /\ ppos' = ppos + 1
    /\ UNCHANGED <<bKind, apiKey, items, cur, pc, out_text, xrec, xlog, results, envelope>>
    /\ UNCHANGED <<windowVars, scanVars, runVars, harvestVars, mergeVars, roundTripVars, attacksVars, buildRunnerVars, debugVars, weekOfDateVars, accountVars, walkVars, selectVars>>

\* the end of run_builder: the hcr builder serialises only a non-empty
\* event list (serialize_events_structured: source, window, events); the
\* shadow builder always dumps source, window, events and noncompliant
WriteEnvelope ==
    /\ pc = "parse" /\ ppos > Len(results)
    /\ envelope' =
         IF bKind = "hcr"
         THEN IF all_events # <<>>
              THEN [written |-> TRUE, events |-> all_events,
                    has_noncompliant |-> FALSE, noncompliant |-> <<>>]
              ELSE envelope
         ELSE [written |-> TRUE, events |-> all_events,
               has_noncompliant |-> TRUE, noncompliant |-> noncompliant]
    /\ pc' = "done"
    /\ UNCHANGED <<bKind, apiKey, items, cur, out_text, xrec, xlog, results,
                   ppos, noncompliant, all_events>>
    /\ UNCHANGED <<windowVars, scanVars, runVars, harvestVars, mergeVars, roundTripVars, attacksVars, buildRunnerVars, debugVars, weekOfDateVars, accountVars, walkVars, selectVars>>

ExtractNext ==
    \/ BeginUrl
    \/ BeginText
    \/ FirstCall
    \/ RetryCall
    \/ ReturnText
    \/ ParseItemHcr
    \/ ParseItemShadow
    \/ WriteEnvelope


(***************************************************************************)
(* Part 4. The one-shot run: harvest, build, write                         *)
(***************************************************************************)

\* bound on the pages a harvester fetches
MaxPages == 2

\* bound on the items a builder processes
MaxRunItems == 2

\* the sources followed: one whose page fetch is unguarded, one guarded
Sources == {"congress", "hcr"}

Selections == {<<"congress">>, <<"hcr">>, <<"congress", "hcr">>, <<"hcr", "congress">>}

NoLists == [get |-> <<>>, build |-> <<>>]

Err(stage, key, kind) == [stage |-> stage, key |-> key, kind |-> kind]

\* step2_v4.main, window validation: --start and --week exclude each other,
\* one of them is required, and the resolver may raise
main_window(a) ==
    IF Given(a.start)
    THEN IF Given(a.week) THEN Raised
         ELSE _compute_window_from_start(Val(a.start), a.weeks, a.end)
    ELSE IF ~Given(a.week) THEN Raised
         ELSE _compute_window_from_week(Val(a.week), a.weeks)

RunInit ==
    /\ rWindowOk \in {main_window(a).st = "window" : a \in WArgs}
    /\ rSelected \in Selections
    /\ rStage = "window"
    /\ rKey = 1
    /\ rPage = 0
    /\ rItem = -1
    /\ rOk = NoLists
    /\ rFailed = NoLists
    /\ rEventJson \in {{}, {"stale"}}
    /\ rErrors = {}
    /\ rRc = [get |-> -1, build |-> -1, write |-> -1]
    /\ rExit = -1

\* variant: the run goes on to the harvest whatever the window
MainWindowUnchecked ==
    /\ rStage = "window"
    /\ rStage' = "get"
    /\ UNCHANGED <<rWindowOk, rSelected, rKey, rPage, rItem, rOk, rFailed,
                   rEventJson, rErrors, rRc, rExit>>
    /\ UNCHANGED <<windowVars, scanVars, extractVars, harvestVars, mergeVars, roundTripVars, attacksVars, buildRunnerVars, debugVars, weekOfDateVars, accountVars, walkVars, selectVars>>

\* step2_v4.main: window validation; an invalid window ends the run with 2
MainWindow ==
    /\ rStage = "window"
    /\ IF rWindowOk
       THEN /\ rStage' = "get"
            /\ UNCHANGED rExit
       ELSE /\ rStage' = "done"
            /\ rExit' = 2
    /\ UNCHANGED <<rWindowOk, rSelected, rKey, rPage, rItem, rOk, rFailed,
                   rEventJson, rErrors, rRc>>
    /\ UNCHANGED <<windowVars, scanVars, extractVars, harvestVars, mergeVars, roundTripVars, attacksVars, buildRunnerVars, debugVars, weekOfDateVars, accountVars, walkVars, selectVars>>

\* the harvest orchestrator's loop body has finished source rKey
HarvesterEnds(ok, errs) ==
    /\ rOk' = IF ok THEN [rOk EXCEPT !.get = Append(@, rSelected[rKey])] ELSE rOk
    /\ rFailed' = IF ok THEN rFailed
                  ELSE [rFailed EXCEPT !.get = Append(@, rSelected[rKey])]
    /\ rErrors' = rErrors \cup errs
    /\ rKey' = rKey + 1
    /\ rPage' = 0

\* step2_getcongress_v4._walk_bill_pages, one page: session.get is not
\* guarded, so a request error leaves run_harvester as an exception, which
\* the harvest orchestrator records as a failed source
CongressPage ==
    /\ rStage = "get" /\ rKey <= Len(rSelected) /\ rSelected[rKey] = "congress"
    /\ \E page \in {"full", "short", "error"} :
         CASE page = "full" ->
                /\ rPage < MaxPages
                /\ rPage' = rPage + 1
                /\ UNCHANGED <<rOk, rFailed, rErrors, rKey>>
           [] page = "short" -> HarvesterEnds(TRUE, {})
           [] page = "error" -> HarvesterEnds(FALSE, {Err("get", "congress", "fetch")})
    /\ UNCHANGED <<rWindowOk, rSelected, rStage, rItem, rEventJson, rRc, rExit>>
    /\ UNCHANGED <<windowVars, scanVars, extractVars, harvestVars, mergeVars, roundTripVars, attacksVars, buildRunnerVars, debugVars, weekOfDateVars, accountVars, walkVars, selectVars>>

\* step2_gethcr_v4.run_harvester, one page: the request is guarded, an
\* error breaks the page loop and the harvester finishes with what it has
HcrPage ==
    /\ rStage = "get" /\ rKey <= Len(rSelected) /\ rSelected[rKey] = "hcr"
    /\ IF rPage < MaxPages
       THEN \E page \in {"posts", "empty", "error"} :
              CASE page = "posts" ->
                     /\ rPage' = rPage + 1
                     /\ UNCHANGED <<rOk, rFailed, rErrors, rKey>>
                [] page = "empty" -> HarvesterEnds(TRUE, {})
                [] page = "error" -> HarvesterEnds(TRUE, {Err("get", "hcr", "fetch")})
       ELSE HarvesterEnds(TRUE, {})
    /\ UNCHANGED <<rWindowOk, rSelected, rStage, rItem, rEventJson, rRc, rExit>>
    /\ UNCHANGED <<windowVars, scanVars, extractVars, harvestVars, mergeVars, roundTripVars, attacksVars, buildRunnerVars, debugVars, weekOfDateVars, accountVars, walkVars, selectVars>>

\* variant: the build is started whatever the harvest returned
GetEndBuildsAnyway ==
    /\ rStage = "get" /\ rKey > Len(rSelected)
    /\ rRc' = [rRc EXCEPT !.get = IF rFailed.get = <<>> THEN 0 ELSE 1]
    /\ rStage' = "build"
    /\ rKey' = 1
    /\ UNCHANGED <<rWindowOk, rSelected, rPage, rItem, rOk, rFailed, rEventJson,
                   rErrors, rExit>>
    /\ UNCHANGED <<windowVars, scanVars, extractVars, harvestVars, mergeVars, roundTripVars, attacksVars, buildRunnerVars, debugVars, weekOfDateVars, accountVars, walkVars, selectVars>>

\* step2_getweekevents_v4.main returns, step2_v4.main decides on the build
GetEnd ==
    /\ rStage = "get" /\ rKey > Len(rSelected)
    /\ IF rFailed.get = <<>>
       THEN /\ rRc' = [rRc EXCEPT !.get = 0]
            /\ rStage' = "build"
            /\ UNCHANGED rExit
       ELSE /\ rRc' = [get |-> 1, build |-> 99, write |-> 99]
            /\ rStage' = "done"
            /\ rExit' = 1
    /\ rKey' = 1
    /\ UNCHANGED <<rWindowOk, rSelected, rPage, rItem, rOk, rFailed, rEventJson, rErrors>>
    /\ UNCHANGED <<windowVars, scanVars, extractVars, harvestVars, mergeVars, roundTripVars, attacksVars, buildRunnerVars, debugVars, weekOfDateVars, accountVars, walkVars, selectVars>>

\* the build orchestrator's loop body has finished source rKey
BuilderEnds(ok) ==
    /\ rOk' = IF ok THEN [rOk EXCEPT !.build = Append(@, rSelected[rKey])] ELSE rOk
    /\ rFailed' = IF ok THEN rFailed
                  ELSE [rFailed EXCEPT !.build = Append(@, rSelected[rKey])]
    /\ rKey' = rKey + 1
    /\ rItem' = -1

\* run_builder: _load_filtered; a missing input file raises
BuildLoad ==
    /\ rStage = "build" /\ rKey <= Len(rSelected) /\ rItem = -1
    /\ \E readable \in BOOLEAN :
         IF readable
         THEN /\ rItem' = 0
              /\ UNCHANGED <<rOk, rFailed, rKey, rErrors>>
         ELSE /\ BuilderEnds(FALSE)
              /\ rErrors' = rErrors \cup {Err("build", rSelected[rKey], "input")}
    /\ UNCHANGED <<rWindowOk, rSelected, rStage, rPage, rEventJson, rRc, rExit>>
    /\ UNCHANGED <<windowVars, scanVars, extractVars, harvestVars, mergeVars, roundTripVars, attacksVars, buildRunnerVars, debugVars, weekOfDateVars, accountVars, walkVars, selectVars>>

\* run_builder's item loop: extraction errors are caught per item
BuildItem ==
    /\ rStage = "build" /\ rKey <= Len(rSelected)
    /\ rItem >= 0 /\ rItem < MaxRunItems
    /\ \E item \in {"events", "none", "error"} :
         /\ rEventJson' = IF item = "events"
                          THEN rEventJson \cup {rSelected[rKey]} ELSE rEventJson
         /\ rErrors' = IF item = "error"
                       THEN rErrors \cup {Err("build", rSelected[rKey], "extract")}
                       ELSE rErrors
    /\ rItem' = rItem + 1
    /\ UNCHANGED <<rWindowOk, rSelected, rStage, rKey, rPage, rOk, rFailed, rRc, rExit>>
    /\ UNCHANGED <<windowVars, scanVars, extractVars, harvestVars, mergeVars, roundTripVars, attacksVars, buildRunnerVars, debugVars, weekOfDateVars, accountVars, walkVars, selectVars>>

\* run_builder returns its summary
BuildReturn ==
    /\ rStage = "build" /\ rKey <= Len(rSelected) /\ rItem >= 0
    /\ BuilderEnds(TRUE)
    /\ UNCHANGED <<rWindowOk, rSelected, rStage, rPage, rEventJson, rErrors, rRc, rExit>>
    /\ UNCHANGED <<windowVars, scanVars, extractVars, harvestVars, mergeVars, roundTripVars, attacksVars, buildRunnerVars, debugVars, weekOfDateVars, accountVars, walkVars, selectVars>>

\* step2_buildweekevents_v4.main returns, step2_v4.main decides on the
\* writer: always after a clean build, else only if an event file exists
BuildEnd ==
    /\ rStage = "build" /\ rKey > Len(rSelected)
    /\ LET rc == IF rFailed.build = <<>> THEN 0 ELSE 1
           should_write == rc = 0 \/ rEventJson # {}
       IN IF should_write
          THEN /\ rRc' = [rRc EXCEPT !.build = rc]
               /\ rStage' = "write"
               /\ UNCHANGED rExit
          ELSE /\ rRc' = [rRc EXCEPT !.build = rc, !.write = 99]
               /\ rStage' = "done"
               /\ rExit' = 1
    /\ UNCHANGED <<rWindowOk, rSelected, rKey, rPage, rItem, rOk, rFailed,
                   rEventJson, rErrors>>
    /\ UNCHANGED <<windowVars, scanVars, extractVars, harvestVars, mergeVars, roundTripVars, attacksVars, buildRunnerVars, debugVars, weekOfDateVars, accountVars, walkVars, selectVars>>

\* the writer runs and step2_v4.main returns 0 only if all three steps did
Write ==
    /\ rStage = "write"
    /\ \E rc \in {0, 1} :
         /\ rRc' = [rRc EXCEPT !.write = rc]
         /\ rExit' = IF rRc.get = 0 /\ rRc.build = 0 /\ rc = 0 THEN 0 ELSE 1
    /\ rStage' = "done"
    /\ UNCHANGED <<rWindowOk, rSelected, rKey, rPage, rItem, rOk, rFailed,
                   rEventJson, rErrors>>
    /\ UNCHANGED <<windowVars, scanVars, extractVars, harvestVars, mergeVars, roundTripVars, attacksVars, buildRunnerVars, debugVars, weekOfDateVars, accountVars, walkVars, selectVars>>

RunNext ==
    \/ MainWindow
    \/ CongressPage
    \/ HcrPage
    \/ GetEnd
    \/ BuildLoad
    \/ BuildItem
    \/ BuildReturn
    \/ BuildEnd
    \/ Write

(***************************************************************************)
(* Part 5. The harvesters' window filter, dedupe and window statistics     *)
(*                                                                         *)
(* A raw item carries the fields the filters read: title, url (the         *)
(* canonical URL, falling back to the URL), post_date (an optional date)   *)
(* and subtype ("" when the item is of a kind the harvester accepts, "bad" *)
(* for an unexpected Federal Register subtype, a podcast or unsupported    *)
(* post type, a bill that is not terminal or is ceremonial).               *)
(***************************************************************************)

MaxRaw == 3

RawItem(title, url, post_date, subtype) ==
    [title |-> title, url |-> url, post_date |-> post_date,
     subtype |-> subtype]

HarvestWindow == Window(W1_START, W1_END)

ItFirst == RawItem("t1", "a", {HarvestWindow.start}, "")

ItSameUrl == RawItem("t2", "a", {HarvestWindow.start + 1}, "")

ItLast == RawItem("t3", "b", {HarvestWindow.end}, "")

ItNoTitle == RawItem("", "c", {HarvestWindow.start}, "")

ItNoUrl == RawItem("t5", "", {HarvestWindow.start}, "")

ItNoDate == RawItem("t6", "d", {}, "")

ItBefore == RawItem("t7", "e", {HarvestWindow.start - 1}, "")

ItAfter == RawItem("t8", "f", {HarvestWindow.end + 1}, "")

ItBadSubtype == RawItem("t9", "g", {HarvestWindow.start + 2}, "bad")

RawPool == {ItFirst, ItSameUrl, ItLast, ItNoTitle, ItNoUrl, ItNoDate,
            ItBefore, ItAfter, ItBadSubtype}

RawLists == UNION {[1 .. n -> RawPool] : n \in 0 .. MaxRaw}

Harvesters == {"federalregister", "orders", "shadow", "hcr", "congress"}

\* step2_helper_v4.within_window: False on a missing date, else inclusive
within_window(iso, start, end) == \E d \in iso : start <= d /\ d <= end

NthOf(idx, k) == CHOOSE i \in idx : Cardinality({j \in idx : j <= i}) = k

\* the sub-list of seq at the positions idx, in the order of seq
Pick(seq, idx) == [k \in 1 .. Cardinality(idx) |-> seq[NthOf(idx, k)]]

RECURSIVE SumOver(_, _)
SumOver(f, keys) ==
    IF keys = {} THEN 0
    ELSE LET k == CHOOSE x \in keys : TRUE
         IN f[k] + SumOver(f, keys \ {k})

\* the if / elif chain of the Federal Register filter
ReasonFederalRegister(it, w) ==
    IF it.title = "" THEN "no_title"
    ELSE IF it.url = "" THEN "no_url"
    ELSE IF it.post_date = {} THEN "nodate"
    ELSE IF it.subtype # "" THEN "bad_subtype"
    ELSE IF ~within_window(it.post_date, w.start, w.end) THEN "outside"
    ELSE "inside"

\* the orders filter reads the date only
ReasonOrders(it, w) ==
    IF it.post_date = {} THEN "nodate"
    ELSE IF Val(it.post_date) < w.start THEN "before"
    ELSE IF Val(it.post_date) > w.end THEN "after"
    ELSE "inside"

ReasonShadow(it, w) ==
    IF it.title = "" THEN "no_title"
    ELSE IF it.url = "" THEN "no_url"
    ELSE IF it.post_date = {} THEN "nodate"
    ELSE IF ~within_window(it.post_date, w.start, w.end) THEN "outside"
    ELSE "inside"

\* the bills loop: terminal and not ceremonial, then the hard window filter
ReasonCongress(it, w) ==
    IF it.subtype # "" THEN "not_terminal"
    ELSE IF it.post_date = {} THEN "nodate"
    ELSE IF ~within_window(it.post_date, w.start, w.end) THEN "outside"
    ELSE "inside"

\* page-level identity of a post: its URL, else "date|title"
HcrPid(it) ==
    IF it.url # "" THEN [u |-> it.url, d |-> {}, t |-> ""]
    ELSE [u |-> "", d |-> it.post_date, t |-> it.title]

\* match-level key of a post: id or url or title
HcrKey(it) == IF it.url # "" THEN it.url ELSE it.title

HcrAllSeen(raw) ==
    Pick(raw, {i \in 1 .. Len(raw) :
                 \A j \in 1 .. i - 1 : HcrPid(raw[j]) # HcrPid(raw[i])})

HcrEligible(it, w) ==
    /\ within_window(it.post_date, w.start, w.end)
    /\ it.subtype = ""

HcrReasonAt(seen, i, w) ==
    IF seen[i].post_date = {} THEN "nodate"
    ELSE IF ~within_window(seen[i].post_date, w.start, w.end) THEN "outside"
    ELSE IF seen[i].subtype # "" THEN "bad_type"
    ELSE IF \E j \in 1 .. i - 1 :
               HcrEligible(seen[j], w) /\ HcrKey(seen[j]) = HcrKey(seen[i])
         THEN "seen_key"
    ELSE "inside"

\* the items the harvester counts as seen
Seen(kind, raw) == IF kind = "hcr" THEN HcrAllSeen(raw) ELSE raw

ReasonAt(kind, seen, i, w) ==
    IF kind = "federalregister" THEN ReasonFederalRegister(seen[i], w)
    ELSE IF kind = "orders" THEN ReasonOrders(seen[i], w)
    ELSE IF kind = "shadow" THEN ReasonShadow(seen[i], w)
    ELSE IF kind = "congress" THEN ReasonCongress(seen[i], w)
    ELSE HcrReasonAt(seen, i, w)

\* the orders filter appends an undated item to kept
KeptIdx(kind, seen, w) ==
    {i \in 1 .. Len(seen) :
        \/ ReasonAt(kind, seen, i, w) = "inside"
        \/ kind = "orders" /\ ReasonAt(kind, seen, i, w) = "nodate"}

\* an entity survives dedupe when its key is not empty and not seen before;
\* the bills loop has no dedupe
DedupeIdx(kind, kept) ==
    IF kind = "congress" THEN 1 .. Len(kept)
    ELSE {i \in 1 .. Len(kept) :
            /\ kept[i].url # ""
            /\ \A j \in 1 .. i - 1 : kept[j].url # kept[i].url}

\* the rejection counters each harvester reports
RejectReasons(kind) ==
    IF kind = "federalregister"
    THEN {"outside", "nodate", "no_title", "no_url", "bad_subtype"}
    ELSE IF kind = "orders" THEN {"before", "after", "nodate"}
    ELSE IF kind = "congress" THEN {}
    ELSE {"outside", "nodate", "no_title", "no_url"}

CountOf(kind, seen, w, reason) ==
    Cardinality({i \in 1 .. Len(seen) : ReasonAt(kind, seen, i, w) = reason})

\* the window statistics as logged and written; a figure the harvester
\* does not report is None
WindowStats(kind, seen, kept, out, w) ==
    [total |-> Len(seen),
     kept_after_filter |->
        IF kind = "orders" THEN CountOf(kind, seen, w, "inside")
        ELSE IF kind = "shadow"
        THEN Len(seen) - (CountOf(kind, seen, w, "outside")
                          + CountOf(kind, seen, w, "nodate")
                          + CountOf(kind, seen, w, "no_title")
                          + CountOf(kind, seen, w, "no_url"))
        ELSE Len(kept),
     kept_after_dedup |-> IF kind = "congress" THEN {} ELSE {Len(out)},
     reasons |-> [r \in RejectReasons(kind) |->
                    IF kind = "hcr" THEN 0 ELSE CountOf(kind, seen, w, r)],
     dupes |-> IF kind \in {"federalregister", "hcr"}
               THEN {Len(kept) - Len(out)} ELSE {}]

NoStats ==
    [total |-> 0, kept_after_filter |-> 0, kept_after_dedup |-> {},
     reasons |-> <<>>, dupes |-> {}]

HarvestInit ==
    /\ hRaw \in RawLists
    /\ hKind = "none"
    /\ hSeen = <<>>
    /\ hKept = <<>>
    /\ hOut = <<>>
    /\ hStats = NoStats

\* one harvester run over the raw items: filter, dedupe, statistics
RunHarvester(kind) ==
    /\ hKind = "none"
    /\ hKind' = kind
    /\ hSeen' = Seen(kind, hRaw)
    /\ hKept' = Pick(hSeen', KeptIdx(kind, hSeen', HarvestWindow))
    /\ hOut' = Pick(hKept', DedupeIdx(kind, hKept'))
    /\ hStats' = WindowStats(kind, hSeen', hKept', hOut', HarvestWindow)
    /\ UNCHANGED hRaw
    /\ UNCHANGED <<windowVars, scanVars, extractVars, runVars, mergeVars, roundTripVars, attacksVars, buildRunnerVars, debugVars, weekOfDateVars, accountVars, walkVars, selectVars>>

HarvestNext == \E kind \in Harvesters : RunHarvester(kind)

(***************************************************************************)
(* Part 6. The master log writer                                           *)
(*                                                                         *)
(* Source keys and titles are strings the writer compares, so they are     *)
(* sequences of character codes and str.lower and the string order are     *)
(* computed on the codes.  Categories, URLs and summaries are only tested  *)
(* for equality and for emptiness.  A row carries the parsed date.         *)
(***************************************************************************)

MaxRows == 3

DATE_MAX == 3652059

_ANCHOR_W1_START == 739271

_ANCHOR_W1_END == 739275

_ANCHOR_W2_START == 739276

CATEGORY_ORDER ==
    <<"Executive Actions & Orders",
      "Legislative & Oversight Activity",
      "Judicial Developments",
      "Law Enforcement & Surveillance",
      "Elections & Representation",
      "Civil Society & Protest",
      "Information & Media Control",
      "Economic & Regulatory Power",
      "Appointments & Patronage",
      "Transparency & Records",
      "International Relations",
      "Civil<EN DASH>Military Relations & State Violence">>

\* str.lower on character codes: "A".."Z" move to "a".."z"
LowerCodes(s) ==
    [i \in 1 .. Len(s) |-> IF s[i] >= 65 /\ s[i] <= 90 THEN s[i] + 32
                           ELSE s[i]]

\* Python's order on strings: lexicographic by code, a prefix first
RECURSIVE StrLess(_, _)
StrLess(a, b) ==
    IF b = <<>> THEN FALSE
    ELSE IF a = <<>> THEN TRUE
    ELSE IF a[1] # b[1] THEN a[1] < b[1]
    ELSE StrLess(Tail(a), Tail(b))

SrcCongress == <<99>>   \* "c"

SrcHcr == <<104>>       \* "h"

SourceKeys == {SrcCongress, SrcHcr}

TitleUpperB == <<66>>   \* "B"

TitleLowerA == <<97>>   \* "a"

Event(date, category, title) ==
    [date |-> date, category |-> category, title |-> title,
     url |-> "u", summary |-> "s", why |-> "w"]

EvJudicial ==
    Event({_ANCHOR_W1_START + 1}, "Judicial Developments", TitleLowerA)

EvExecutive ==
    Event({_ANCHOR_W1_START + 1}, "Executive Actions & Orders", TitleUpperB)

EvUnknownCat == Event({_ANCHOR_W1_START + 1}, "Other", TitleUpperB)

EvBlankCat == Event({_ANCHOR_W1_START + 1}, "", TitleLowerA)

EvFeb01 == Event({_ANCHOR_W2_START + 7}, "Judicial Developments", TitleLowerA)

EvFeb03 == Event({_ANCHOR_W2_START + 9}, "Other", TitleUpperB)

EvUndated == Event({}, "Executive Actions & Orders", TitleLowerA)

EvEarly ==
    Event({_ANCHOR_W1_START - 1}, "Judicial Developments", TitleUpperB)

EventPool == {EvJudicial, EvExecutive, EvUnknownCat, EvBlankCat, EvFeb01,
              EvFeb03, EvUndated, EvEarly}

\* the events of the selected envelopes, file by file in sorted file order
FileEvent == [source_key : SourceKeys, ev : EventPool]

FileOrdered(inp) ==
    \A i, j \in 1 .. Len(inp) :
        i < j => ~StrLess(inp[j].source_key, inp[i].source_key)

Inputs ==
    {inp \in UNION {[1 .. n -> FileEvent] : n \in 0 .. MaxRows} :
        FileOrdered(inp)}

\* enumerate(events): the index of an event in its own file
OriginIndex(inp, i) ==
    Cardinality({j \in 1 .. i - 1 : inp[j].source_key = inp[i].source_key})

StrictDrop(e) ==
    e.title = <<>> \/ e.summary = "" \/ e.category = "" \/ e.why = ""

EventRow(inp, i) ==
    [source_key |-> inp[i].source_key,
     date |-> inp[i].ev.date,
     category |-> inp[i].ev.category,
     title |-> inp[i].ev.title,
     url |-> inp[i].ev.url,
     summary |-> inp[i].ev.summary,
     why |-> inp[i].ev.why,
     origin_index |-> OriginIndex(inp, i)]

\* PASS A: every event of every file, normalized; strict mode drops an
\* event with a missing title, summary, category or why
LoadRows(inp, strict) ==
    LET keep == {i \in 1 .. Len(inp) : ~(strict /\ StrictDrop(inp[i].ev))}
    IN [k \in 1 .. Cardinality(keep) |-> EventRow(inp, NthOf(keep, k))]

InOrder(cat) == {i \in 1 .. Len(CATEGORY_ORDER) : CATEGORY_ORDER[i] = cat}

\* _cat_rank with an empty category ranked like an unknown one
_cat_rank_blank_as_unknown(cat) ==
    IF InOrder(cat) # {} THEN (CHOOSE i \in InOrder(cat) : TRUE) - 1
    ELSE Len(CATEGORY_ORDER)

\* first component of _cat_rank: the 0-based index of a known category,
\* len(CATEGORY_ORDER) for an unknown one, one more for an empty one
_cat_rank(cat) ==
    IF cat = "" THEN Len(CATEGORY_ORDER) + 1
    ELSE IF InOrder(cat) # {} THEN (CHOOSE i \in InOrder(cat) : TRUE) - 1
    ELSE Len(CATEGORY_ORDER)

sort_key(ev) ==
    [dkey |-> IF Given(ev.date) THEN Val(ev.date) ELSE DATE_MAX,
     rank |-> _cat_rank(ev.category),
     source |-> LowerCodes(ev.source_key),
     title |-> LowerCodes(ev.title)]

\* tuple comparison of two sort keys
KeyLess(a, b) ==
    IF a.dkey # b.dkey THEN a.dkey < b.dkey
    ELSE IF a.rank # b.rank THEN a.rank < b.rank
    ELSE IF a.source # b.source THEN StrLess(a.source, b.source)
    ELSE StrLess(a.title, b.title)

\* list.sort(key=sort_key) is stable: a row goes after every row with a
\* smaller key and after every earlier row with an equal key
SortPos(rows, i) ==
    1 + Cardinality({j \in 1 .. Len(rows) :
            \/ KeyLess(sort_key(rows[j]), sort_key(rows[i]))
            \/ j < i /\ ~KeyLess(sort_key(rows[i]), sort_key(rows[j]))})

SortRows(rows) ==
    [p \in 1 .. Len(rows) |->
        rows[CHOOSE i \in 1 .. Len(rows) : SortPos(rows, i) = p]]

\* Counter over one field of the rows
CountByDate(rows) ==
    [k \in {rows[i].date : i \in 1 .. Len(rows)} |->
        Cardinality({i \in 1 .. Len(rows) : rows[i].date = k})]

CountBySource(rows) ==
    [k \in {rows[i].source_key : i \in 1 .. Len(rows)} |->
        Cardinality({i \in 1 .. Len(rows) : rows[i].source_key = k})]

\* a by_category that counts a category once however many rows carry it
CountByCategoryOnce(rows) ==
    [k \in {rows[i].category : i \in 1 .. Len(rows)} |-> 1]

CountByCategory(rows) ==
    [k \in {rows[i].category : i \in 1 .. Len(rows)} |->
        Cardinality({i \in 1 .. Len(rows) : rows[i].category = k})]

Counts(rows) ==
    [total |-> Len(rows),
     by_date |-> CountByDate(rows),
     by_source |-> CountBySource(rows),
     by_category |-> CountByCategory(rows)]

NoIndex == [written |-> FALSE, counts |-> Counts(<<>>), events |-> <<>>]

\* the index written when there is no row: a window and no events
EmptyIndex == [written |-> TRUE, counts |-> Counts(<<>>), events |-> <<>>]

IndexPayload(rows) ==
    [written |-> TRUE, counts |-> Counts(rows), events |-> rows]

\* a week mapping of plain seven-day blocks counted from 2025-01-20
dc_week_for_monday_blocks(d) ==
    IF d < _ANCHOR_W1_START THEN {}
    ELSE LET week_offset == (d - _ANCHOR_W1_START) \div 7
             start == _ANCHOR_W1_START + 7 * week_offset
         IN {[num |-> 1 + week_offset, start |-> start, end |-> start + 6]}

\* variant: weeks counted from 1 at the first Saturday
dc_week_for_counted_from_saturday(d) ==
    IF d < _ANCHOR_W1_START THEN {}
    ELSE IF d <= _ANCHOR_W1_END
    THEN {[num |-> 1, start |-> _ANCHOR_W1_START, end |-> _ANCHOR_W1_END]}
    ELSE LET week_offset == (d - _ANCHOR_W2_START) \div 7
             start == _ANCHOR_W2_START + 7 * week_offset
         IN {[num |-> 1 + week_offset, start |-> start, end |-> start + 6]}

\* the week of a date: week 1 is 2025-01-20..2025-01-24, weeks 2+ are the
\* Saturday-Friday blocks from 2025-01-25; None before 2025-01-20
dc_week_for(d) ==
    IF d < _ANCHOR_W1_START THEN {}
    ELSE IF d <= _ANCHOR_W1_END
    THEN {[num |-> 1, start |-> _ANCHOR_W1_START, end |-> _ANCHOR_W1_END]}
    ELSE LET week_offset == (d - _ANCHOR_W2_START) \div 7
             start == _ANCHOR_W2_START + 7 * week_offset
         IN {[num |-> 2 + week_offset, start |-> start, end |-> start + 6]}

WeekOfRow(r) == UNION {dc_week_for(d) : d \in r.date}

week_groups(rows) ==
    {wk.num : wk \in UNION {WeekOfRow(rows[i]) : i \in 1 .. Len(rows)}}

WeekRows(rows, wnum) ==
    Pick(rows, {i \in 1 .. Len(rows) :
                  \E wk \in WeekOfRow(rows[i]) : wk.num = wnum})

week_bounds(rows, wnum) ==
    CHOOSE wk \in UNION {WeekOfRow(rows[i]) : i \in 1 .. Len(rows)} :
        wk.num = wnum

WeekPayload(rows, wnum) ==
    [window |-> Window(week_bounds(rows, wnum).start,
                       week_bounds(rows, wnum).end),
     week_number |-> wnum,
     counts |-> Counts(WeekRows(rows, wnum)),
     events |-> WeekRows(rows, wnum)]

\* the weekly index files: written only when more than one week has rows
WeeklyFiles(rows) ==
    IF Cardinality(week_groups(rows)) > 1
    THEN [wnum \in week_groups(rows) |-> WeekPayload(rows, wnum)]
    ELSE <<>>

MergeInit ==
    /\ mInput \in Inputs
    /\ mStrict \in BOOLEAN
    /\ mStage = "start"
    /\ all_rows = <<>>
    /\ mIndex = NoIndex
    /\ mWeekly = <<>>

PassALoad ==
    /\ mStage = "start"
    /\ all_rows' = LoadRows(mInput, mStrict)
    /\ mStage' = "loaded"
    /\ UNCHANGED <<mInput, mStrict, mIndex, mWeekly>>
    /\ UNCHANGED <<windowVars, scanVars, extractVars, runVars, harvestVars, roundTripVars, attacksVars, buildRunnerVars, debugVars, weekOfDateVars, accountVars, walkVars, selectVars>>

WriteEmptyOutputs ==
    /\ mStage = "loaded"
    /\ all_rows = <<>>
    /\ mIndex' = EmptyIndex
    /\ mStage' = "done"
    /\ UNCHANGED <<mInput, mStrict, all_rows, mWeekly>>
    /\ UNCHANGED <<windowVars, scanVars, extractVars, runVars, harvestVars, roundTripVars, attacksVars, buildRunnerVars, debugVars, weekOfDateVars, accountVars, walkVars, selectVars>>

PassBSort ==
    /\ mStage = "loaded"
    /\ all_rows # <<>>
    /\ all_rows' = SortRows(all_rows)
    /\ mStage' = "sorted"
    /\ UNCHANGED <<mInput, mStrict, mIndex, mWeekly>>
    /\ UNCHANGED <<windowVars, scanVars, extractVars, runVars, harvestVars, roundTripVars, attacksVars, buildRunnerVars, debugVars, weekOfDateVars, accountVars, walkVars, selectVars>>

WriteMasterIndex ==
    /\ mStage = "sorted"
    /\ mIndex' = IndexPayload(all_rows)
    /\ mStage' = "master"
    /\ UNCHANGED <<mInput, mStrict, all_rows, mWeekly>>
    /\ UNCHANGED <<windowVars, scanVars, extractVars, runVars, harvestVars, roundTripVars, attacksVars, buildRunnerVars, debugVars, weekOfDateVars, accountVars, walkVars, selectVars>>

WriteWeeklyIndexes ==
    /\ mStage = "master"
    /\ mWeekly' = WeeklyFiles(all_rows)
    /\ mStage' = "done"
    /\ UNCHANGED <<mInput, mStrict, all_rows, mIndex>>
    /\ UNCHANGED <<windowVars, scanVars, extractVars, runVars, harvestVars, roundTripVars, attacksVars, buildRunnerVars, debugVars, weekOfDateVars, accountVars, walkVars, selectVars>>

MergeNext ==
    \/ PassALoad
    \/ WriteEmptyOutputs
    \/ PassBSort
    \/ WriteMasterIndex
    \/ WriteWeeklyIndexes

(***************************************************************************)
(* Part 7. Canonical blocks at the level of characters                     *)
(*                                                                         *)
(* A value is a sequence of characters (one-character strings), so that    *)
(* str.strip, str.lower, str.replace and re.split are computed on it.  A   *)
(* block line is a label and the characters that follow "<label> ".        *)
(***************************************************************************)

MaxChars == 2

MaxTokens == 2

ValueChars == {" ", "a", "B"}

\* single-line values with at least one character that is not a space
TextValues ==
    {s \in UNION {[1 .. n -> ValueChars] : n \in 1 .. MaxChars} :
        \E i \in 1 .. Len(s) : s[i] # " "}

TokLower == <<"a">>

TokUpperSpace == <<"B", " ", "a">>

TokQuoted == <<"\"", "a", "\"">>

TokComma == <<"a", ",", "B">>

TokPadded == <<" ", "a">>

TokenPool == {TokLower, TokUpperSpace, TokQuoted, TokComma, TokPadded}

BlockValues ==
    [date : {"2025-01-21"},
     title : {<<"a">>, <<"a", " ">>},
     summary : TextValues,
     category : {<<"c">>, <<"c", " ">>},
     why_relevant : {<<"w">>},
     attacks : UNION {[1 .. n -> TokenPool] : n \in 0 .. MaxTokens}]

RECURSIVE LStripChar(_, _)
LStripChar(s, c) ==
    IF s # <<>> /\ s[1] = c THEN LStripChar(Tail(s), c) ELSE s

RECURSIVE RStripChar(_, _)
RStripChar(s, c) ==
    IF s # <<>> /\ s[Len(s)] = c
    THEN RStripChar(SubSeq(s, 1, Len(s) - 1), c)
    ELSE s

\* str.strip() of a value (spaces) and str.strip(c)
StripChar(s, c) == RStripChar(LStripChar(s, c), c)

RECURSIVE JoinTokens(_)
JoinTokens(tokens) ==
    IF tokens = <<>> THEN <<>>
    ELSE IF Len(tokens) = 1 THEN tokens[1]
    ELSE tokens[1] \o <<",", " ">> \o JoinTokens(Tail(tokens))

\* the block of the output format: header, then the labelled lines in the
\* order of the protocol, the attacks as [t1, t2]
BuildBlock(v) ==
    <<Line(HdrPlain.lab, v.title),
      Line("Summary:", v.summary),
      Line("Source:", <<"h", "t", "t", "p", "s", ":", "/", "/", "u">>),
      Line("Category:", v.category),
      Line("Why Relevant:", v.why_relevant),
      Line("attacks:", <<"[">> \o JoinTokens(v.attacks) \o <<"]">>)>>

\* the value of the last line of the block (i, e] with this label, stripped
BlockField(block, i, e, label) ==
    LET c == {j \in (i + 1) .. e : block[j].lab = label}
    IN IF c = {} THEN <<>>
       ELSE StripChar(block[CHOOSE j \in c : \A k \in c : k <= j].val, " ")

\* re.split(r"[;,]", cleaned)
RECURSIVE SplitParts(_)
SplitParts(s) ==
    LET seps == {i \in 1 .. Len(s) : s[i] \in {",", ";"}}
    IN IF seps = {} THEN <<s>>
       ELSE LET i == CHOOSE x \in seps : \A y \in seps : x <= y
            IN <<SubSeq(s, 1, i - 1)>> \o SplitParts(SubSeq(s, i + 1, Len(s)))

\* part.strip().strip('"').strip("'")
Handle(part) == StripChar(StripChar(StripChar(part, " "), "\""), "'")

\* the handle without lower-casing
NormalizeHandleKeepCase(h) ==
    [i \in 1 .. Len(h) |-> IF h[i] = " " THEN "_" ELSE h[i]]

\* h.lower().replace(" ", "_")
NormalizeHandle(h) ==
    [i \in 1 .. Len(h) |->
        IF h[i] = "B" THEN "b" ELSE IF h[i] = " " THEN "_" ELSE h[i]]

RECURSIVE Handles(_)
Handles(parts) ==
    IF parts = <<>> THEN <<>>
    ELSE (IF Handle(parts[1]) = <<>> THEN <<>>
          ELSE <<NormalizeHandle(Handle(parts[1]))>>) \o Handles(Tail(parts))

\* the attacks line normalised to a list of handles
AttacksList(attacks_line) ==
    IF attacks_line = <<>> THEN <<>>
    ELSE LET cleaned == StripChar(attacks_line, " ")
             inner == IF cleaned[1] = "[" /\ cleaned[Len(cleaned)] = "]"
                      THEN StripChar(SubSeq(cleaned, 2, Len(cleaned) - 1), " ")
                      ELSE cleaned
         IN Handles(SplitParts(inner))

\* the event of the block that starts at header line i; the copies of the
\* parser differ in the key of the date only (date, source_date)
BlockEvent(block, hs, i) ==
    LET e == BlockEnd(block, hs, i) IN
    [date |-> "2025-01-21",
     title |-> StripChar(block[i].val, " "),
     summary |-> BlockField(block, i, e, "Summary:"),
     category |-> BlockField(block, i, e, "Category:"),
     why_relevant |-> BlockField(block, i, e, "Why Relevant:"),
     attacks |-> AttacksList(BlockField(block, i, e, "attacks:"))]

\* one event per header line of the text
ParseBlock(block) ==
    LET hs == {i \in 1 .. Len(block) : block[i].lab = HdrPlain.lab} IN
    [k \in 1 .. Cardinality(hs) |-> BlockEvent(block, hs, NthHeader(hs, k))]

RoundTripInit ==
    /\ tValues \in BlockValues
    /\ tStep = "values"
    /\ tBlock = <<>>
    /\ tEvents = <<>>

BuildCanonicalBlock ==
    /\ tStep = "values"
    /\ tBlock' = BuildBlock(tValues)
    /\ tStep' = "built"
    /\ UNCHANGED <<tValues, tEvents>>
    /\ UNCHANGED <<windowVars, scanVars, extractVars, runVars, harvestVars, mergeVars, attacksVars, buildRunnerVars, debugVars, weekOfDateVars, accountVars, walkVars, selectVars>>

CallParseBlock ==
    /\ tStep = "built"
    /\ tEvents' = ParseBlock(tBlock)
    /\ tStep' = "parsed"
    /\ UNCHANGED <<tValues, tBlock>>
    /\ UNCHANGED <<windowVars, scanVars, extractVars, runVars, harvestVars, mergeVars, attacksVars, buildRunnerVars, debugVars, weekOfDateVars, accountVars, walkVars, selectVars>>

RoundTripNext ==
    \/ BuildCanonicalBlock
    \/ CallParseBlock

(***************************************************************************)
(* Part 8. The attacks field on its way from a reply to the master index   *)
(*                                                                         *)
(* A JSON value of the attacks key is tagged with its kind: a list of      *)
(* strings, a bare string (items holds it), null, a number, or absent.     *)
(***************************************************************************)

JList(tokens) == [kind |-> "list", items |-> tokens]

JStr(s) == [kind |-> "str", items |-> <<s>>]

JNull == [kind |-> "null", items |-> <<>>]

JNumber == [kind |-> "number", items |-> <<>>]

JAbsent == [kind |-> "absent", items |-> <<>>]

TokenLists == UNION {[1 .. n -> TokenPool] : n \in 0 .. MaxTokens}

\* what a reply block may hold for attacks: no line, a bracketed list, or
\* the bare handles
AttackLines ==
    {{}} \cup {{<<"[">> \o JoinTokens(l) \o <<"]">>} : l \in TokenLists}
         \cup {{JoinTokens(l)} : l \in TokenLists \ {<<>>}}

\* what an envelope read from disk may hold for attacks
StoredValues ==
    {JAbsent, JNull, JNumber, JStr(<<>>), JStr(<<" ">>), JStr(TokUpperSpace),
     JList(<<>>), JList(<<TokLower, <<" ">>, TokPadded>>)}

\* the parser: attacks_list, empty when the block has no attacks line
parser_attacks(line) ==
    JList(IF line = {} THEN <<>> ELSE AttacksList(StripChar(Val(line), " ")))

\* ev.setdefault("attacks", [])
setdefault_attacks(v) == IF v.kind = "absent" THEN JList(<<>>) ELSE v

RECURSIVE NonBlankStripped(_)
NonBlankStripped(parts) ==
    IF parts = <<>> THEN <<>>
    ELSE (IF StripChar(parts[1], " ") = <<>> THEN <<>>
          ELSE <<StripChar(parts[1], " ")>>) \o NonBlankStripped(Tail(parts))

\* serialize_events_structured: the attacks of an event as written
serialize_attacks(v) ==
    JList(Handles(IF v.kind = "str"
                  THEN NonBlankStripped(SplitParts(v.items[1]))
                  ELSE IF v.kind = "list" THEN NonBlankStripped(v.items)
                  ELSE <<>>))

\* _norm_event that passes the stored value on as it is
norm_attacks_as_stored(v) == v

\* _norm_event: e.get("attacks") or [], then a string becomes a list of
\* one, a list keeps its non-blank items, anything else becomes []
norm_attacks(v) ==
    IF v.kind = "str" THEN JList(NonBlankStripped(v.items))
    ELSE IF v.kind = "list" THEN JList(NonBlankStripped(v.items))
    ELSE JList(<<>>)

AttacksInit ==
    \/ /\ aBuilder \in {"hcr", "shadow"}
       /\ aLine \in AttackLines
       /\ aStep = "reply"
       /\ aEvent = JAbsent
       /\ aStored = JAbsent
       /\ aIndexed = JAbsent
    \/ /\ aBuilder = "none"
       /\ aLine = {}
       /\ aStep = "envelope"
       /\ aEvent = JAbsent
       /\ aStored \in StoredValues
       /\ aIndexed = JAbsent

ParseReplyAttacks ==
    /\ aStep = "reply"
    /\ aEvent' = parser_attacks(aLine)
    /\ aStep' = "parsed"
    /\ UNCHANGED <<aBuilder, aLine, aStored, aIndexed>>
    /\ UNCHANGED <<windowVars, scanVars, extractVars, runVars, harvestVars, mergeVars, roundTripVars, buildRunnerVars, debugVars, weekOfDateVars, accountVars, walkVars, selectVars>>

BuilderSetDefault ==
    /\ aStep = "parsed"
    /\ aEvent' = setdefault_attacks(aEvent)
    /\ aStep' = "built"
    /\ UNCHANGED <<aBuilder, aLine, aStored, aIndexed>>
    /\ UNCHANGED <<windowVars, scanVars, extractVars, runVars, harvestVars, mergeVars, roundTripVars, buildRunnerVars, debugVars, weekOfDateVars, accountVars, walkVars, selectVars>>

\* the hcr builder writes through serialize_events_structured
SerializeEvents ==
    /\ aStep = "built"
    /\ aBuilder = "hcr"
    /\ aStored' = serialize_attacks(aEvent)
    /\ aStep' = "envelope"
    /\ UNCHANGED <<aBuilder, aLine, aEvent, aIndexed>>
    /\ UNCHANGED <<windowVars, scanVars, extractVars, runVars, harvestVars, mergeVars, roundTripVars, buildRunnerVars, debugVars, weekOfDateVars, accountVars, walkVars, selectVars>>

\* the other builders json.dump their events as they are
DumpEvents ==
    /\ aStep = "built"
    /\ aBuilder = "shadow"
    /\ aStored' = aEvent
    /\ aStep' = "envelope"
    /\ UNCHANGED <<aBuilder, aLine, aEvent, aIndexed>>
    /\ UNCHANGED <<windowVars, scanVars, extractVars, runVars, harvestVars, mergeVars, roundTripVars, buildRunnerVars, debugVars, weekOfDateVars, accountVars, walkVars, selectVars>>

\* the writer normalizes the stored event and writes the master index
NormEventAttacks ==
    /\ aStep = "envelope"
    /\ aIndexed' = norm_attacks(aStored)
    /\ aStep' = "indexed"
    /\ UNCHANGED <<aBuilder, aLine, aEvent, aStored>>
    /\ UNCHANGED <<windowVars, scanVars, extractVars, runVars, harvestVars, mergeVars, roundTripVars, buildRunnerVars, debugVars, weekOfDateVars, accountVars, walkVars, selectVars>>

AttacksNext ==
    \/ ParseReplyAttacks
    \/ BuilderSetDefault
    \/ SerializeEvents
    \/ DumpEvents
    \/ NormEventAttacks

(***************************************************************************)
(* Part 9. The build runner (step2_buildweekevents_v4.main)                *)
(*                                                                         *)
(* The runner walks the selected sources in order.  What happens to one    *)
(* source is decided by the world it runs in: its builder module cannot be *)
(* imported, its filtered input file cannot be loaded, its builder raises  *)
(* for another reason, or its builder returns its metadata.                *)
(***************************************************************************)

Builders == {"hcr", "econ", "shadow"}

BuilderWorlds == {"no_module", "input_missing", "raises", "returns"}

\* the selections: the selected keys in order, none of them twice
BuilderSelections ==
    {sel \in UNION {[1 .. n -> Builders] : n \in 0 .. Cardinality(Builders)} :
        \A i, j \in DOMAIN sel : i # j => sel[i] # sel[j]}

\* _load_builder: None when the module cannot be imported
_load_builder(world) == IF world = "no_module" THEN {} ELSE {"run_builder"}

\* run_builder of one source: "raised" or "returned".  The econ builder
\* catches the failure of its loader and returns a dict with an error key;
\* the other builders let the loader's FileNotFoundError out.
run_builder(key, world) ==
    CASE world = "raises" -> "raised"
      [] world = "input_missing" ->
            IF key = "econ" THEN "returned" ELSE "raised"
      [] OTHER -> "returned"

\* one pass of the loop body of main: which list the key is appended to
BuilderVerdict(key, world) ==
    IF _load_builder(world) = {}
    THEN "failed"
    ELSE IF run_builder(key, world) = "returned" THEN "ok" ELSE "failed"

BuildRunnerInit ==
    /\ uSelected \in BuilderSelections
    /\ uWorld \in [Builders -> BuilderWorlds]
    /\ uPos = 1
    /\ uOk = <<>>
    /\ uFailed = <<>>
    /\ uExit = {}

\* for key in selected: one iteration
RunBuilder ==
    /\ uExit = {}
    /\ uPos <= Len(uSelected)
    /\ LET key == uSelected[uPos]
       IN  IF BuilderVerdict(key, uWorld[key]) = "ok"
           THEN /\ uOk' = Append(uOk, key)
                /\ uFailed' = uFailed
           ELSE /\ uFailed' = Append(uFailed, key)
                /\ uOk' = uOk
    /\ uPos' = uPos + 1
    /\ UNCHANGED <<uSelected, uWorld, uExit>>
    /\ UNCHANGED <<windowVars, scanVars, extractVars, runVars, harvestVars, mergeVars, roundTripVars, attacksVars, debugVars, weekOfDateVars, accountVars, walkVars, selectVars>>

\* return 0 if not failed else 1
BuildRunnerReturn ==
    /\ uExit = {}
    /\ uPos > Len(uSelected)
    /\ uExit' = {IF uFailed = <<>> THEN 0 ELSE 1}
    /\ UNCHANGED <<uSelected, uWorld, uPos, uOk, uFailed>>
    /\ UNCHANGED <<windowVars, scanVars, extractVars, runVars, harvestVars, mergeVars, roundTripVars, attacksVars, debugVars, weekOfDateVars, accountVars, walkVars, selectVars>>

BuildRunnerNext ==
    \/ RunBuilder
    \/ BuildRunnerReturn

(***************************************************************************)
(* Part 10. The diagnostic artifacts of one extraction                     *)
(*                                                                         *)
(* Rates and random draws are counted in hundredths: 5 is 0.05, 100 is     *)
(* 1.0; random.random() draws from [0.0, 1.0).                             *)
(***************************************************************************)

DEFAULT_SAMPLE == 5

PolicyNames == {"never", "failures", "sample", "always"}

\* what may be configured as the policy: the four names, a name in another
\* case with spaces around it, an unknown word, the empty string
PolicyTexts == PolicyNames \cup {" Always ", "verbose", ""}

\* str.strip().lower() on the configured texts
StripLower(p) == IF p = " Always " THEN "always" ELSE p

\* what may be configured as the rate: a number, or a text float() rejects
Rate(v) == [ok |-> TRUE, v |-> v]

RateJunk == [ok |-> FALSE, v |-> 0]

RateTexts == {Rate(-50), Rate(0), Rate(50), Rate(150), RateJunk}

RandomDraws == {0, 49, 99}

Min2(a, b) == IF a < b THEN a ELSE b

Max2(a, b) == IF a > b THEN a ELSE b

\* explicit or os.getenv(...) or default: the first one that is truthy
FirstTruthy(explicit, env, default) ==
    IF Given(explicit) /\ Val(explicit) # "" THEN Val(explicit)
    ELSE IF Given(env) /\ Val(env) # "" THEN Val(env)
    ELSE default

_resolve_log_policy(explicit, env, sample) ==
    LET p == StripLower(FirstTruthy(explicit, env, "failures"))
        s == IF Given(sample) /\ Val(sample).ok THEN Val(sample).v
             ELSE DEFAULT_SAMPLE
    IN  [policy |-> IF p \in PolicyNames THEN p ELSE "failures",
         sample_rate |-> Max2(0, Min2(100, s))]

\* variant of _should: a forced write is made whatever the policy
_should_force_first(w, is_failure, force) ==
    IF force THEN TRUE
    ELSE IF w.policy = "never" THEN FALSE
    ELSE IF w.policy = "always" THEN TRUE
    ELSE IF w.policy = "failures" THEN is_failure
    ELSE IF w.policy = "sample" THEN is_failure \/ w.sample_hit
    ELSE FALSE

\* _DebugWriter._should
_should(w, is_failure, force) ==
    IF w.policy = "never" THEN FALSE
    ELSE IF force THEN TRUE
    ELSE IF w.policy = "always" THEN TRUE
    ELSE IF w.policy = "failures" THEN is_failure
    ELSE IF w.policy = "sample" THEN is_failure \/ w.sample_hit
    ELSE FALSE

\* _DebugWriter.text / .json: the files on disk after a write of suffixes
DebugWrite(files, w, suffixes, is_failure, force) ==
    IF _should(w, is_failure, force) THEN files \cup suffixes ELSE files

NoWriter == [policy |-> "none", sample_rate |-> 0, sample_hit |-> FALSE]

DebugInit ==
    /\ dConfig \in [explicit : Opt(PolicyTexts), env : Opt({"always", "verbose"}),
                    sample : Opt(RateTexts)]
    /\ dItem \in [fetch : {"ok", "failed"},
                  first : {"compliant", "fails_scan", "raises"},
                  retry : {"compliant", "fails_scan"},
                  random : RandomDraws]
    /\ dWriter = NoWriter
    /\ dFiles = {}
    /\ dStep = "start"

\* _resolve_log_policy and _DebugWriter.__init__
NewDebugWriter ==
    /\ dStep = "start"
    /\ LET r == _resolve_log_policy(dConfig.explicit, dConfig.env, dConfig.sample)
       IN  dWriter' = [policy |-> r.policy, sample_rate |-> r.sample_rate,
                       sample_hit |-> IF r.policy = "sample"
                                      THEN dItem.random < r.sample_rate
                                      ELSE FALSE]
    /\ dStep' = "fetched"
    /\ UNCHANGED <<dConfig, dItem, dFiles>>
    /\ UNCHANGED <<windowVars, scanVars, extractVars, runVars, harvestVars, mergeVars, roundTripVars, attacksVars, buildRunnerVars, weekOfDateVars, accountVars, walkVars, selectVars>>

\* the fetch artifacts, and on a failed fetch the forced ones and the return
FetchArtifacts ==
    /\ dStep = "fetched"
    /\ LET bad == dItem.fetch = "failed"
           meta == DebugWrite(dFiles, dWriter,
                       {".llm_request.json", ".system_prompt.txt", ".article_text.txt"},
                       bad, FALSE)
       IN  IF bad
           THEN /\ dFiles' = DebugWrite(meta, dWriter,
                                 {".user_message.txt", ".llm_response.txt", ".debug.json"},
                                 TRUE, TRUE)
                /\ dStep' = "done"
           ELSE /\ dFiles' = meta
                /\ dStep' = "precall"
    /\ UNCHANGED <<dConfig, dItem, dWriter>>
    /\ UNCHANGED <<windowVars, scanVars, extractVars, runVars, harvestVars, mergeVars, roundTripVars, attacksVars, buildRunnerVars, weekOfDateVars, accountVars, walkVars, selectVars>>

\* the precall dump, the first call and the dumps that follow it
FirstCallArtifacts ==
    /\ dStep = "precall"
    /\ LET pre == DebugWrite(dFiles, dWriter, {".debug.json"}, FALSE, FALSE)
           post == DebugWrite(pre, dWriter,
                       {".user_message.txt", ".llm_response.txt"}, FALSE, FALSE)
           is_schema_fail == dItem.first = "fails_scan"
       IN  IF dItem.first = "raises"
           THEN /\ dFiles' = pre
                /\ dStep' = "done"
           ELSE /\ dFiles' = DebugWrite(post, dWriter, {".debug.json"},
                                 is_schema_fail, FALSE)
                /\ dStep' = IF is_schema_fail THEN "retry" ELSE "done"
    /\ UNCHANGED <<dConfig, dItem, dWriter>>
    /\ UNCHANGED <<windowVars, scanVars, extractVars, runVars, harvestVars, mergeVars, roundTripVars, attacksVars, buildRunnerVars, weekOfDateVars, accountVars, walkVars, selectVars>>

\* the retry call and its dumps
RetryArtifacts ==
    /\ dStep = "retry"
    /\ LET reply == DebugWrite(dFiles, dWriter, {".llm_response_retry1.txt"},
                        TRUE, FALSE)
       IN  dFiles' = DebugWrite(reply, dWriter, {".debug.json"},
                         dItem.retry = "fails_scan", FALSE)
    /\ dStep' = "done"
    /\ UNCHANGED <<dConfig, dItem, dWriter>>
    /\ UNCHANGED <<windowVars, scanVars, extractVars, runVars, harvestVars, mergeVars, roundTripVars, attacksVars, buildRunnerVars, weekOfDateVars, accountVars, walkVars, selectVars>>

DebugNext ==
    \/ NewDebugWriter
    \/ FetchArtifacts
    \/ FirstCallArtifacts
    \/ RetryArtifacts

(***************************************************************************)
(* Part 11. The week of a date, against the resolver's week windows        *)
(***************************************************************************)

MaxDaysBefore == 3
MaxDaysAfter == 40

WeekDates == (_ANCHOR_W1_START - MaxDaysBefore) .. (_ANCHOR_W1_START + MaxDaysAfter)

WeekOfDateInit ==
    /\ kDate \in WeekDates
    /\ kWeek = {}
    /\ kWindow = NotCalled
    /\ kStep = "start"

\* the writer asks for the week of an event's date
CallDcWeekFor ==
    /\ kStep = "start"
    /\ kWeek' = dc_week_for(kDate)
    /\ kStep' = "week"
    /\ UNCHANGED <<kDate, kWindow>>
    /\ UNCHANGED <<windowVars, scanVars, extractVars, runVars, harvestVars, mergeVars, roundTripVars, attacksVars, buildRunnerVars, debugVars, accountVars, walkVars, selectVars>>

\* the harvest and build runners resolve --week n for the week found
CallResolveWeek ==
    /\ kStep = "week"
    /\ kWindow' = IF kWeek = {} THEN NotCalled
                  ELSE resolve_date_window({}, {}, {}, {Val(kWeek).num})
    /\ kStep' = "resolved"
    /\ UNCHANGED <<kDate, kWeek>>
    /\ UNCHANGED <<windowVars, scanVars, extractVars, runVars, harvestVars, mergeVars, roundTripVars, attacksVars, buildRunnerVars, debugVars, accountVars, walkVars, selectVars>>

WeekOfDateNext ==
    \/ CallDcWeekFor
    \/ CallResolveWeek

(***************************************************************************)
(* Part 12. The builders' account of their items                           *)
(*                                                                         *)
(* An item has a URL or not, and its extraction raises or returns a text   *)
(* that is empty, holds event blocks, or holds none.  The builder's first  *)
(* loop collects the texts, its second loop parses them into events and    *)
(* noncompliant entries.                                                   *)
(***************************************************************************)

MaxAccountItems == 2

AccountBuilders == {"hcr", "shadow", "noah"}

AccountItems == [url : BOOLEAN, reply : {"raises", "empty", "blocks", "prose"}]

\* the text the first loop stores for an item: the catch clause turns an
\* exception into a text of the builder's own
StoredText(kind, it) ==
    IF it.reply = "raises"
    THEN (IF kind = "hcr" THEN "llm_extraction_failed" ELSE "extraction_error")
    ELSE it.reply

\* the noah builder skips an item that has no URL; the hcr and the shadow
\* builders extract from the transcript or from a synthetic text instead
SkipsItem(kind, it) == kind = "noah" /\ ~it.url

\* the second loop on one stored text: the reason it records, if any
NoncompliantReason(kind, text) ==
    CASE kind = "hcr" ->
            IF text = "empty" THEN {"empty_output"}
            ELSE IF text # "blocks" THEN {"no_blocks_parsed"} ELSE {}
      [] kind = "shadow" ->
            IF text = "empty" \/ text = "extraction_error" THEN {"no_blocks"}
            ELSE IF text # "blocks" THEN {"no_blocks"} ELSE {}
      [] OTHER ->
            IF text = "empty" THEN {"empty"}
            ELSE IF text # "blocks" THEN {"no_blocks"} ELSE {}

AccountInit ==
    /\ cKind \in AccountBuilders
    /\ cItems \in UNION {[1 .. n -> AccountItems] : n \in 1 .. MaxAccountItems}
    /\ cPos = 1
    /\ cResults = <<>>
    /\ cEvents = <<>>
    /\ cNoncompliant = <<>>
    /\ cStep = "collect"

\* first loop, one item
CollectItem ==
    /\ cStep = "collect"
    /\ cPos <= Len(cItems)
    /\ cResults' = IF SkipsItem(cKind, cItems[cPos]) THEN cResults
                   ELSE Append(cResults, [idx |-> cPos,
                                          events_text |-> StoredText(cKind, cItems[cPos])])
    /\ cPos' = cPos + 1
    /\ UNCHANGED <<cKind, cItems, cEvents, cNoncompliant, cStep>>
    /\ UNCHANGED <<windowVars, scanVars, extractVars, runVars, harvestVars, mergeVars, roundTripVars, attacksVars, buildRunnerVars, debugVars, weekOfDateVars, walkVars, selectVars>>

\* the first loop is over, the second starts
CollectDone ==
    /\ cStep = "collect"
    /\ cPos > Len(cItems)
    /\ cStep' = "parse"
    /\ cPos' = 1
    /\ UNCHANGED <<cKind, cItems, cResults, cEvents, cNoncompliant>>
    /\ UNCHANGED <<windowVars, scanVars, extractVars, runVars, harvestVars, mergeVars, roundTripVars, attacksVars, buildRunnerVars, debugVars, weekOfDateVars, walkVars, selectVars>>

\* second loop, one stored text; a text with blocks yields one or two events
AccountResult ==
    /\ cStep = "parse"
    /\ cPos <= Len(cResults)
    /\ LET rec == cResults[cPos]
           reason == NoncompliantReason(cKind, rec.events_text)
       IN  /\ cNoncompliant' = IF reason = {} THEN cNoncompliant
                               ELSE Append(cNoncompliant,
                                           [idx |-> rec.idx, reason |-> Val(reason)])
           /\ \E n \in 1 .. 2 :
                cEvents' = IF rec.events_text = "blocks"
                           THEN cEvents \o [k \in 1 .. n |-> rec.idx]
                           ELSE cEvents
    /\ cPos' = cPos + 1
    /\ UNCHANGED <<cKind, cItems, cResults, cStep>>
    /\ UNCHANGED <<windowVars, scanVars, extractVars, runVars, harvestVars, mergeVars, roundTripVars, attacksVars, buildRunnerVars, debugVars, weekOfDateVars, walkVars, selectVars>>

AccountDone ==
    /\ cStep = "parse"
    /\ cPos > Len(cResults)
    /\ cStep' = "done"
    /\ UNCHANGED <<cKind, cItems, cPos, cResults, cEvents, cNoncompliant>>
    /\ UNCHANGED <<windowVars, scanVars, extractVars, runVars, harvestVars, mergeVars, roundTripVars, attacksVars, buildRunnerVars, debugVars, weekOfDateVars, walkVars, selectVars>>

AccountNext ==
    \/ CollectItem
    \/ CollectDone
    \/ AccountResult
    \/ AccountDone

(***************************************************************************)
(* Part 13. The page walks of the harvesters                               *)
(*                                                                         *)
(* A walk asks the server for one page after the other.  The server        *)
(* answers each request as it likes: an error, a page with no items, a     *)
(* page with fewer items than asked for, or a full page; and it reports a  *)
(* total number of pages or none (0).  The walks with a ceiling count      *)
(* their pages up to WalkCeiling; the walks without one are followed up    *)
(* to MaxWalk pages by number, and beyond that by the parity of the        *)
(* requests made.                                                          *)
(***************************************************************************)

WalkCeiling == 3
MaxWalk == 4

Walkers == {"federalregister", "congress", "guardian", "hcr"}

ServerPages == [items : {"error", "none", "short", "full"}, total : {0, 2}]

NoPage == [items : {"none"}, total : {0}]

WalkInit ==
    /\ lKind \in Walkers
    /\ lPage = 0
    /\ lParity = 0
    /\ lLast \in NoPage
    /\ lStep = "walking"

\* one request has been answered with r
Requested(r) ==
    /\ lPage' = IF lPage < MaxWalk THEN lPage + 1 ELSE lPage
    /\ lParity' = 1 - lParity
    /\ lLast' = r

\* _discover_tier_a_actions, one pass of while True for one agency
WalkTierAPage ==
    /\ lStep = "walking" /\ lKind = "federalregister"
    /\ \E r \in ServerPages :
         /\ Requested(r)
         /\ lStep' = IF r.items \in {"error", "none"} THEN "done"
                     ELSE IF r.total # 0 /\ lPage + 2 > r.total THEN "done"
                     ELSE "walking"
    /\ UNCHANGED lKind
    /\ UNCHANGED <<windowVars, scanVars, extractVars, runVars, harvestVars, mergeVars, roundTripVars, attacksVars, buildRunnerVars, debugVars, weekOfDateVars, accountVars, selectVars>>

\* _walk_bill_pages, one pass of while True: only a short page ends it
WalkBillPage ==
    /\ lStep = "walking" /\ lKind = "congress"
    /\ \E r \in ServerPages :
         /\ Requested(r)
         /\ lStep' = IF r.items # "full" THEN "done" ELSE "walking"
    /\ UNCHANGED lKind
    /\ UNCHANGED <<windowVars, scanVars, extractVars, runVars, harvestVars, mergeVars, roundTripVars, attacksVars, buildRunnerVars, debugVars, weekOfDateVars, accountVars, selectVars>>

\* _walk_results, one pass of while page <= max_pages
WalkResultsPage ==
    /\ lStep = "walking" /\ lKind = "guardian"
    /\ lPage + 1 <= WalkCeiling
    /\ \E r \in ServerPages :
         /\ Requested(r)
         /\ lStep' = IF r.total # 0 /\ lPage + 1 >= r.total THEN "done"
                     ELSE IF lPage + 2 <= WalkCeiling THEN "walking"
                     ELSE "done"
    /\ UNCHANGED lKind
    /\ UNCHANGED <<windowVars, scanVars, extractVars, runVars, harvestVars, mergeVars, roundTripVars, attacksVars, buildRunnerVars, debugVars, weekOfDateVars, accountVars, selectVars>>

\* _discover_copy_mode, one pass of while page_idx < max_pages
DiscoverCopyPage ==
    /\ lStep = "walking" /\ lKind = "hcr"
    /\ lPage < WalkCeiling
    /\ \E r \in ServerPages, early_stop \in BOOLEAN :
         /\ Requested(r)
         /\ lStep' = IF r.items \in {"error", "none"} \/ early_stop THEN "done"
                     ELSE IF lPage + 1 < WalkCeiling THEN "walking"
                     ELSE "done"
    /\ UNCHANGED lKind
    /\ UNCHANGED <<windowVars, scanVars, extractVars, runVars, harvestVars, mergeVars, roundTripVars, attacksVars, buildRunnerVars, debugVars, weekOfDateVars, accountVars, selectVars>>

WalkNext ==
    \/ WalkTierAPage
    \/ WalkBillPage
    \/ WalkResultsPage
    \/ DiscoverCopyPage

(***************************************************************************)
(* Part 14. The sources of a one-shot run restricted with --only/--skip    *)
(*                                                                         *)
(* --only and --skip are sets of source keys, the empty set standing for   *)
(* an option that was not given.  The event files that earlier runs left   *)
(* for the window are on disk when the run starts.                         *)
(***************************************************************************)

\* the keys of HARVESTER_SPECS among the builders' keys: econ has no harvester
HARVESTER_SPECS == {"hcr", "shadow"}

\* step2_getweekevents_v4._resolve_selection
get_resolve_selection(only, skip) ==
    LET selected == IF only # {} THEN {k \in only : k \in HARVESTER_SPECS}
                    ELSE HARVESTER_SPECS
    IN  IF skip # {}
        THEN {k \in selected : k \notin {s \in skip : s \in HARVESTER_SPECS}}
        ELSE selected

\* step2_buildweekevents_v4._resolve_selection
build_resolve_selection(only, skip) ==
    LET selected == IF only # {} THEN {k \in only : k \in Builders}
                    ELSE Builders
    IN  IF skip # {}
        THEN {k \in selected : k \notin {s \in skip : s \in Builders}}
        ELSE selected

\* step2_writeweekevents_v4._want_source
_want_source(source, only, skip) ==
    IF only # {} THEN source \in only
    ELSE IF skip # {} THEN source \notin skip
    ELSE TRUE

\* the --only and --skip that step2_v4.main puts on each stage's command
\* line: the harvest and the build get its own, the writer gets none
StageArgs(stage, only, skip) ==
    IF stage = "write" THEN [only |-> {}, skip |-> {}]
    ELSE [only |-> only, skip |-> skip]

SelectInit ==
    /\ oOnly \in SUBSET Builders
    /\ oSkip \in SUBSET Builders
    /\ oDisk \in SUBSET Builders
    /\ oHarvested = {}
    /\ oBuilt = {}
    /\ oMerged = {}
    /\ oStep = "get"

\* the harvest stage resolves its sources
HarvestStage ==
    /\ oStep = "get"
    /\ LET a == StageArgs("get", oOnly, oSkip)
       IN  oHarvested' = get_resolve_selection(a.only, a.skip)
    /\ oStep' = "build"
    /\ UNCHANGED <<oOnly, oSkip, oDisk, oBuilt, oMerged>>
    /\ UNCHANGED <<windowVars, scanVars, extractVars, runVars, harvestVars, mergeVars, roundTripVars, attacksVars, buildRunnerVars, debugVars, weekOfDateVars, accountVars, walkVars>>

\* the build stage resolves its sources; some of them write an event file
BuildStage ==
    /\ oStep = "build"
    /\ LET a == StageArgs("build", oOnly, oSkip)
       IN  /\ oBuilt' = build_resolve_selection(a.only, a.skip)
           /\ \E wrote \in SUBSET build_resolve_selection(a.only, a.skip) :
                oDisk' = oDisk \cup wrote
    /\ oStep' = "write"
    /\ UNCHANGED <<oOnly, oSkip, oHarvested, oMerged>>
    /\ UNCHANGED <<windowVars, scanVars, extractVars, runVars, harvestVars, mergeVars, roundTripVars, attacksVars, buildRunnerVars, debugVars, weekOfDateVars, accountVars, walkVars>>

\* the writer merges the event files of the window that it wants
WriteStage ==
    /\ oStep = "write"
    /\ LET a == StageArgs("write", oOnly, oSkip)
       IN  oMerged' = {src \in oDisk : _want_source(src, a.only, a.skip)}
    /\ oStep' = "done"
    /\ UNCHANGED <<oOnly, oSkip, oDisk, oHarvested, oBuilt>>
    /\ UNCHANGED <<windowVars, scanVars, extractVars, runVars, harvestVars, mergeVars, roundTripVars, attacksVars, buildRunnerVars, debugVars, weekOfDateVars, accountVars, walkVars>>

SelectNext ==
    \/ HarvestStage
    \/ BuildStage
    \/ WriteStage

(***************************************************************************)
(* Specifications: one per component; the other components stand still     *)
(***************************************************************************)

WindowIdle ==
    /\ wargs = [start |-> {}, end |-> {}, weeks |-> {}, week |-> {}]
    /\ wShared = NotCalled
    /\ wFromStart = NotCalled
    /\ wFromWeek = NotCalled

ScanIdle ==
    /\ stext = <<>>
    /\ sStep = 0
    /\ sNeeds = {}
    /\ sHelper = <<>>
    /\ sLocal = <<>>

ExtractIdle ==
    /\ bKind = "hcr"
    /\ apiKey = FALSE
    /\ items = <<>>
    /\ cur = 1
    /\ pc = "idle"
    /\ out_text = <<>>
    /\ xrec = IdleRec
    /\ xlog = <<>>
    /\ results = <<>>
    /\ ppos = 1
    /\ noncompliant = <<>>
    /\ all_events = <<>>
    /\ envelope = [written |-> FALSE, events |-> <<>>,
                   has_noncompliant |-> FALSE, noncompliant |-> <<>>]

RunIdle ==
    /\ rWindowOk = TRUE
    /\ rSelected = <<>>
    /\ rStage = "idle"
    /\ rKey = 1
    /\ rPage = 0
    /\ rItem = -1
    /\ rOk = NoLists
    /\ rFailed = NoLists
    /\ rEventJson = {}
    /\ rErrors = {}
    /\ rRc = [get |-> -1, build |-> -1, write |-> -1]
    /\ rExit = -1

HarvestIdle ==
    /\ hRaw = <<>>
    /\ hKind = "idle"
    /\ hSeen = <<>>
    /\ hKept = <<>>
    /\ hOut = <<>>
    /\ hStats = NoStats

MergeIdle ==
    /\ mInput = <<>>
    /\ mStrict = FALSE
    /\ mStage = "idle"
    /\ all_rows = <<>>
    /\ mIndex = NoIndex
    /\ mWeekly = <<>>

RoundTripIdle ==
    /\ tValues = <<>>
    /\ tStep = "idle"
    /\ tBlock = <<>>
    /\ tEvents = <<>>

AttacksIdle ==
    /\ aBuilder = "idle"
    /\ aLine = {}
    /\ aStep = "idle"
    /\ aEvent = JAbsent
    /\ aStored = JAbsent
    /\ aIndexed = JAbsent

BuildRunnerIdle ==
    /\ uSelected = <<>>
    /\ uWorld = <<>>
    /\ uPos = 0
    /\ uOk = <<>>
    /\ uFailed = <<>>
    /\ uExit = {}

DebugIdle ==
    /\ dConfig = <<>>
    /\ dItem = <<>>
    /\ dWriter = NoWriter
    /\ dFiles = {}
    /\ dStep = "idle"

WeekOfDateIdle ==
    /\ kDate = 0
    /\ kWeek = {}
    /\ kWindow = NotCalled
    /\ kStep = "idle"

AccountIdle ==
    /\ cKind = "idle"
    /\ cItems = <<>>
    /\ cPos = 0
    /\ cResults = <<>>
    /\ cEvents = <<>>
    /\ cNoncompliant = <<>>
    /\ cStep = "idle"

WalkIdle ==
    /\ lKind = "idle"
    /\ lPage = 0
    /\ lParity = 0
    /\ lLast \in NoPage
    /\ lStep = "idle"

SelectIdle ==
    /\ oOnly = {}
    /\ oSkip = {}
    /\ oDisk = {}
    /\ oHarvested = {}
    /\ oBuilt = {}
    /\ oMerged = {}
    /\ oStep = "idle"

InitWindowSpec == WindowInit /\ ScanIdle /\ ExtractIdle /\ RunIdle /\ HarvestIdle /\ MergeIdle /\ RoundTripIdle /\ AttacksIdle /\ BuildRunnerIdle /\ DebugIdle /\ WeekOfDateIdle /\ AccountIdle /\ WalkIdle /\ SelectIdle

InitScanSpec == ScanInit /\ WindowIdle /\ ExtractIdle /\ RunIdle /\ HarvestIdle /\ MergeIdle /\ RoundTripIdle /\ AttacksIdle /\ BuildRunnerIdle /\ DebugIdle /\ WeekOfDateIdle /\ AccountIdle /\ WalkIdle /\ SelectIdle

InitExtractSpec == ExtractInit /\ WindowIdle /\ ScanIdle /\ RunIdle /\ HarvestIdle /\ MergeIdle /\ RoundTripIdle /\ AttacksIdle /\ BuildRunnerIdle /\ DebugIdle /\ WeekOfDateIdle /\ AccountIdle /\ WalkIdle /\ SelectIdle

InitRunSpec == RunInit /\ WindowIdle /\ ScanIdle /\ ExtractIdle /\ HarvestIdle /\ MergeIdle /\ RoundTripIdle /\ AttacksIdle /\ BuildRunnerIdle /\ DebugIdle /\ WeekOfDateIdle /\ AccountIdle /\ WalkIdle /\ SelectIdle

InitHarvestSpec == HarvestInit /\ WindowIdle /\ ScanIdle /\ ExtractIdle /\ RunIdle /\ MergeIdle /\ RoundTripIdle /\ AttacksIdle /\ BuildRunnerIdle /\ DebugIdle /\ WeekOfDateIdle /\ AccountIdle /\ WalkIdle /\ SelectIdle

InitMergeSpec == MergeInit /\ WindowIdle /\ ScanIdle /\ ExtractIdle /\ RunIdle /\ HarvestIdle /\ RoundTripIdle /\ AttacksIdle /\ BuildRunnerIdle /\ DebugIdle /\ WeekOfDateIdle /\ AccountIdle /\ WalkIdle /\ SelectIdle

InitRoundTripSpec == RoundTripInit /\ WindowIdle /\ ScanIdle /\ ExtractIdle /\ RunIdle /\ HarvestIdle /\ MergeIdle /\ AttacksIdle /\ BuildRunnerIdle /\ DebugIdle /\ WeekOfDateIdle /\ AccountIdle /\ WalkIdle /\ SelectIdle

InitAttacksSpec == AttacksInit /\ WindowIdle /\ ScanIdle /\ ExtractIdle /\ RunIdle /\ HarvestIdle /\ MergeIdle /\ RoundTripIdle /\ BuildRunnerIdle /\ DebugIdle /\ WeekOfDateIdle /\ AccountIdle /\ WalkIdle /\ SelectIdle

InitBuildRunnerSpec == BuildRunnerInit /\ WindowIdle /\ ScanIdle /\ ExtractIdle /\ RunIdle /\ HarvestIdle /\ MergeIdle /\ RoundTripIdle /\ AttacksIdle /\ DebugIdle /\ WeekOfDateIdle /\ AccountIdle /\ WalkIdle /\ SelectIdle

InitDebugSpec == DebugInit /\ WindowIdle /\ ScanIdle /\ ExtractIdle /\ RunIdle /\ HarvestIdle /\ MergeIdle /\ RoundTripIdle /\ AttacksIdle /\ BuildRunnerIdle /\ WeekOfDateIdle /\ AccountIdle /\ WalkIdle /\ SelectIdle

InitWeekOfDateSpec == WeekOfDateInit /\ WindowIdle /\ ScanIdle /\ ExtractIdle /\ RunIdle /\ HarvestIdle /\ MergeIdle /\ RoundTripIdle /\ AttacksIdle /\ BuildRunnerIdle /\ DebugIdle /\ AccountIdle /\ WalkIdle /\ SelectIdle

InitAccountSpec == AccountInit /\ WindowIdle /\ ScanIdle /\ ExtractIdle /\ RunIdle /\ HarvestIdle /\ MergeIdle /\ RoundTripIdle /\ AttacksIdle /\ BuildRunnerIdle /\ DebugIdle /\ WeekOfDateIdle /\ WalkIdle /\ SelectIdle

InitWalkSpec == WalkInit /\ WindowIdle /\ ScanIdle /\ ExtractIdle /\ RunIdle /\ HarvestIdle /\ MergeIdle /\ RoundTripIdle /\ AttacksIdle /\ BuildRunnerIdle /\ DebugIdle /\ WeekOfDateIdle /\ AccountIdle /\ SelectIdle

InitSelectSpec == SelectInit /\ WindowIdle /\ ScanIdle /\ ExtractIdle /\ RunIdle /\ HarvestIdle /\ MergeIdle /\ RoundTripIdle /\ AttacksIdle /\ BuildRunnerIdle /\ DebugIdle /\ WeekOfDateIdle /\ AccountIdle /\ WalkIdle

SpecWindow == InitWindowSpec /\ [][WindowNext]_vars

SpecScan == InitScanSpec /\ [][ScanNext]_vars

SpecExtract == InitExtractSpec /\ [][ExtractNext]_vars

SpecRun == InitRunSpec /\ [][RunNext]_vars

SpecHarvest == InitHarvestSpec /\ [][HarvestNext]_vars

SpecMerge == InitMergeSpec /\ [][MergeNext]_vars

SpecRoundTrip == InitRoundTripSpec /\ [][RoundTripNext]_vars

SpecAttacks == InitAttacksSpec /\ [][AttacksNext]_vars

SpecBuildRunner == InitBuildRunnerSpec /\ [][BuildRunnerNext]_vars

SpecDebug == InitDebugSpec /\ [][DebugNext]_vars

SpecWeekOfDate == InitWeekOfDateSpec /\ [][WeekOfDateNext]_vars

SpecAccount == InitAccountSpec /\ [][AccountNext]_vars

SpecWalk == InitWalkSpec /\ [][WalkNext]_vars

\* the walk goes on as long as it can: a loop that has a next pass takes it
SpecWalkFair == SpecWalk /\ WF_vars(WalkNext)

SpecSelect == InitSelectSpec /\ [][SelectNext]_vars

(***************************************************************************)
(* Claims about the window resolvers (checked under SpecWindow)            *)
(***************************************************************************)

IsOrdered(r) == r.st = "window" => r.start <= r.end

ExplicitEndBeforeStart ==
    /\ Given(wargs.start) /\ Val(wargs.start).ok
    /\ Given(wargs.end) /\ Val(wargs.end).ok
    /\ Val(wargs.end).d < Val(wargs.start).d

\* C8: every window a resolver returns has start <= end, whatever the
\* arguments, and a request whose explicit end is earlier than its start
\* fails instead of returning a window.
C8_WindowOrdered ==
    /\ IsOrdered(wShared)
    /\ IsOrdered(wFromStart)
    /\ IsOrdered(wFromWeek)
    /\ (ExplicitEndBeforeStart /\ wShared # NotCalled => wShared = Raised)
    /\ (ExplicitEndBeforeStart /\ ~Given(wargs.weeks) /\ wFromStart # NotCalled
            => wFromStart = Raised)

\* weekCount as the claims read it: absent counts as 1
WeekCount == IF Given(wargs.weeks) THEN Val(wargs.weeks) ELSE 1

WeekOnlyRequest == ~Given(wargs.start) /\ Given(wargs.week)

C9_Holds(r) ==
    /\ (Val(wargs.week) = 1 /\ ~Given(wargs.weeks) /\ r # NotCalled
            => r = Window(739271, 739271 + 4))
    /\ (Val(wargs.week) >= 2 /\ WeekCount >= 1 /\ r # NotCalled
            => /\ r.st = "window"
               /\ r.start = 739276 + 7 * (Val(wargs.week) - 2)
               /\ weekday(r.start) = 5
               /\ (r.end - r.start) + 1 = 7 * WeekCount)

\* C9: week 1 resolves to (2025-01-20, 2025-01-24); for every week N >= 2
\* and weekCount >= 1 the start is 2025-01-25 + 7*(N-2) days, a Saturday,
\* and the inclusive span is exactly 7*weekCount days. Both resolvers.
C9_WeekCalendar ==
    WeekOnlyRequest => C9_Holds(wShared) /\ C9_Holds(wFromWeek)

C9_Witness ==
    /\ wargs.week = {3} /\ wargs.weeks = {2} /\ ~Given(wargs.start)
    /\ wShared.st = "window" /\ wFromWeek.st = "window"
    /\ wShared.end - wShared.start = 13

\* C10: with a week number and a weekCount >= 1 both given, the resolved
\* end is the end of the single-week window of that week number plus
\* 7*(weekCount-1) days, in the shared resolver and in the one-shot
\* resolver, for week 1 as for every week N >= 2.
C10_EndExtendedByWeeks ==
    (WeekOnlyRequest /\ Val(wargs.week) >= 1 /\ Given(wargs.weeks) /\ Val(wargs.weeks) >= 1)
    => /\ (wShared # NotCalled =>
              /\ wShared.st = "window"
              /\ wShared.end = resolve_date_window({}, {}, {}, wargs.week).end
                                  + 7 * (Val(wargs.weeks) - 1))
       /\ (wFromWeek # NotCalled =>
              /\ wFromWeek.st = "window"
              /\ wFromWeek.end = _compute_window_from_week(Val(wargs.week), {}).end
                                  + 7 * (Val(wargs.weeks) - 1))

(***************************************************************************)
(* Claims about the compliance scan (checked under SpecScan)               *)
(***************************************************************************)

HasFooter(t) == \E i \in 1 .. Len(t) : t[i].lab = "[END OF LOG]"

HasCategoryLine(t) == LabelLineCount(t, "Category:") > 0

HasWhyLine(t) == LabelLineCount(t, "Why Relevant:") > 0

\* an attacks line as the protocol writes it and the canonical parser reads it
HasAttacksLine(t) == \E i \in 1 .. Len(t) : IsAttacksLine(t[i])

\* C3: _needs_schema_retry is true for every reply without the footer
\* [END OF LOG], and false for every reply with the footer, a category
\* line, a why-relevant line and an attacks line written as the protocol
\* instructs (attacks: [...] or "attacks": [...], any letter case).
C3_NeedsSchemaRetryContract ==
    sStep >= 1 =>
        /\ (~HasFooter(stext) => sNeeds = {TRUE})
        /\ (HasFooter(stext) /\ HasCategoryLine(stext) /\ HasWhyLine(stext)
                /\ HasAttacksLine(stext) => sNeeds = {FALSE})

(***************************************************************************)
(* Claims about the extraction and the builders (checked under SpecExtract)*)
(***************************************************************************)

\* the extractions that have ended, and the one in progress
Finished == 1 .. Len(xlog)

GotReply(rec) == Given(rec.first)

\* the first reply fails the scan, is empty, or is the retry sentinel
FirstReplyRejected(rec) ==
    \/ _needs_schema_retry(Val(rec.first))
    \/ Val(rec.first) = <<>>
    \/ Val(rec.first) = <<Line("", "RETRY_SCHEMA")>>

\* C1: an extraction that reaches the completion service invokes it once,
\* and exactly once more if and only if the first reply fails the
\* compliance scan, is empty or is the sentinel RETRY_SCHEMA; never more
\* than twice for one item, whatever the retry reply contains.
C1_SingleRetry ==
    /\ xrec.calls <= 2
    /\ (pc = "call2" => xrec.calls = 1 /\ GotReply(xrec) /\ FirstReplyRejected(xrec))
    /\ (pc = "return" => GotReply(xrec)
                         /\ xrec.calls = IF FirstReplyRejected(xrec) THEN 2 ELSE 1)
    /\ \A i \in Finished :
         /\ xlog[i].calls <= 2
         /\ (GotReply(xlog[i]) =>
                xlog[i].calls = IF FirstReplyRejected(xlog[i]) THEN 2 ELSE 1)
         /\ (~GotReply(xlog[i]) => xlog[i].calls <= 1)

\* a finished extraction whose retry reply was still rejected: two calls
C1_Witness ==
    \E i \in Finished :
        /\ xlog[i].calls = 2
        /\ Given(xlog[i].retry)
        /\ _needs_schema_retry(Val(xlog[i].retry))
        /\ xlog[i].outcome = "returned"

RetryPassed(rec) == Given(rec.retry) /\ ~_needs_schema_retry(Val(rec.retry))

C2_Returned ==
    \A i \in Finished :
        (xlog[i].outcome = "returned" /\ GotReply(xlog[i])) =>
            /\ Val(xlog[i].returned) = IF RetryPassed(xlog[i])
                                       THEN Val(xlog[i].retry)
                                       ELSE Val(xlog[i].first)
            /\ xlog[i].replaced <= 1
            /\ results[i].events_text = Val(xlog[i].returned)

C2_Frozen ==
    /\ Len(results') >= Len(results)
    /\ \A i \in 1 .. Len(results) : results'[i] = results[i]
    /\ \A i \in 1 .. Len(xlog) : xlog'[i] = xlog[i]

\* C2: the text an extraction returns is the retry reply if a retry was
\* issued and its reply passes the compliance scan, and the first reply in
\* every other case; the returned reply is replaced at most once and does
\* not change afterwards.
C2_ReturnedReply == []C2_Returned /\ [][C2_Frozen]_vars

\* both cases in one run: one item returned its retry reply, another kept
\* its first reply although a retry was issued
C2_Witness ==
    /\ pc = "done"
    /\ \E i, j \in Finished :
         /\ xlog[i].outcome = "returned" /\ RetryPassed(xlog[i])
         /\ xlog[i].replaced = 1
         /\ Val(xlog[i].returned) # Val(xlog[i].first)
         /\ xlog[j].outcome = "returned" /\ Given(xlog[j].retry)
         /\ ~RetryPassed(xlog[j])
         /\ Val(xlog[j].returned) = Val(xlog[j].first)
         /\ Val(xlog[j].returned) # Val(xlog[j].retry)

\* the extraction failed on the network or in the completion service
FetchFailed(rec) == rec.fetch = "failed"

CompletionRaised(rec) == rec.outcome = "raised"

\* a failure string: one line of free text in parentheses, no header
IsFailureString(t) ==
    t \in {<<Line("", "(Fetch failed for URL with RC)")>>,
           <<Line("", "(LLM extraction failed: e)")>>,
           <<Line("", "(Extraction error: e)")>>}

\* C4 as stated: the extract operation never raises to its caller; on a
\* failed article fetch and on a raising completion call (missing API key
\* included) it returns a failure string as the reply text.
C4_ExtractNeverRaises ==
    \A i \in Finished :
        /\ xlog[i].outcome = "returned"
        /\ (FetchFailed(xlog[i]) => IsFailureString(Val(xlog[i].returned)))

\* C4 amended: a failed article fetch makes the extract operation return a
\* failure string without calling the service; a raising completion call
\* (missing API key included) leaves the extract operation as an exception,
\* which the builder's item loop catches and replaces by a failure string of
\* its own; either way the item is stored and every later item of the batch
\* is still processed.
C4_FailuresBecomeStrings ==
    /\ Len(results) = Len(xlog)
    /\ \A i \in Finished :
         /\ (FetchFailed(xlog[i]) =>
                /\ xlog[i].outcome = "returned"
                /\ xlog[i].calls = 0
                /\ IsFailureString(Val(xlog[i].returned))
                /\ results[i].events_text = Val(xlog[i].returned))
         /\ (CompletionRaised(xlog[i]) =>
                /\ xlog[i].returned = {}
                /\ IsFailureString(results[i].events_text))
         /\ (~apiKey /\ xlog[i].fetch # "failed" /\ xlog[i].returned # {NoTextText}
                => CompletionRaised(xlog[i]))
    /\ (pc \in {"parse", "done"} =>
            /\ Len(results) = Len(items)
            /\ \A i \in 1 .. Len(items) : results[i].idx = i)

\* a completion call raised on the first item and the second item was
\* still extracted and parsed
C4_Witness ==
    /\ pc = "done"
    /\ Len(items) = 2
    /\ CompletionRaised(xlog[1])
    /\ xlog[2].outcome = "returned" /\ GotReply(xlog[2])
    /\ \E k \in 1 .. Len(all_events) : all_events[k].idx = 2

EventsOf(i) == {k \in 1 .. Len(all_events) : all_events[k].idx = i}

EntriesOf(i) == {k \in 1 .. Len(noncompliant) : noncompliant[k].idx = i}

\* the reply the extraction returned still fails the scan after the retry
StillNoncompliant(rec) ==
    /\ rec.outcome = "returned"
    /\ Given(rec.retry)
    /\ _needs_schema_retry(Val(rec.returned))

\* C5 as stated: an item whose reply still fails the compliance scan after
\* the single retry contributes zero events and is recorded in the
\* noncompliant list with a reason code.
C5_NoncompliantContributesNothing ==
    pc = "done" =>
        \A i \in Finished :
            StillNoncompliant(xlog[i]) =>
                /\ EventsOf(i) = {}
                /\ EntriesOf(i) # {}

ReasonCodes == {"empty_output", "no_blocks_parsed", "no_blocks"}

\* what the builder's parser makes of the stored text of item i
ParsedOf(i) ==
    IF bKind = "hcr" THEN ParseHelper(Strip(results[i].events_text))
    ELSE ParseLocal(Strip(results[i].events_text))

\* C5 amended: the builder does not consult the compliance scan. An item
\* whose stored reply is empty or yields no event block contributes zero
\* events and is recorded once in the noncompliant list with a reason
\* code; an item whose stored reply yields event blocks contributes
\* exactly those events and is not recorded, also when that reply still
\* fails the compliance scan after the single retry.
C5_RecordedByParseResult ==
    pc = "done" =>
        \A i \in 1 .. Len(results) :
            IF ParsedOf(i) = <<>>
            THEN /\ EventsOf(i) = {}
                 /\ Cardinality(EntriesOf(i)) = 1
                 /\ \A k \in EntriesOf(i) : noncompliant[k].reason \in ReasonCodes
            ELSE /\ Cardinality(EventsOf(i)) = Len(ParsedOf(i))
                 /\ \A k \in EventsOf(i) : \E n \in 1 .. Len(ParsedOf(i)) :
                        all_events[k].ev = ParsedOf(i)[n]
                 /\ EntriesOf(i) = {}

\* one item still fails the scan after the retry and is recorded with no
\* events; another still fails the scan and contributes its events
C5_Witness ==
    /\ pc = "done"
    /\ \E i, j \in Finished :
         /\ StillNoncompliant(xlog[i]) /\ EventsOf(i) = {} /\ EntriesOf(i) # {}
         /\ StillNoncompliant(xlog[j]) /\ EventsOf(j) # {} /\ EntriesOf(j) = {}

\* the reply of item i is not empty and has no header line the builder's
\* parser accepts
NoHeaderReply(i) ==
    /\ xlog[i].outcome = "returned" /\ GotReply(xlog[i])
    /\ Strip(results[i].events_text) # <<>>
    /\ IF bKind = "hcr"
       THEN HeaderIdxHelper(results[i].events_text) = {}
       ELSE HeaderIdxLocal(results[i].events_text) = {}

\* C7: a non-empty reply without any header line parses to zero events,
\* and the builder records the item exactly once in the noncompliant list
\* with the reason no_blocks_parsed.
C7_NoHeaderNoBlocksParsed ==
    pc = "done" =>
        \A i \in Finished :
            NoHeaderReply(i) =>
                /\ ParsedOf(i) = <<>>
                /\ EventsOf(i) = {}
                /\ Cardinality(EntriesOf(i)) = 1
                /\ \A k \in EntriesOf(i) : noncompliant[k].reason = "no_blocks_parsed"

(***************************************************************************)
(* Claims about the one-shot run (checked under SpecRun)                   *)
(***************************************************************************)

\* only errors of per-item processing happened: the window resolved and no
\* required input file was unreadable
OnlyItemErrors ==
    /\ rWindowOk
    /\ \A e \in rErrors : e.kind \in {"fetch", "extract"}

InList(key, list) == \E i \in 1 .. Len(list) : list[i] = key

\* C6: an error raised while processing one item never aborts its source
\* or the run: as long as the window is valid and every required input
\* file is readable, every selected source completes its harvest and its
\* build, and the build and write stages both run.
C6_ItemErrorsNeverAbort ==
    (rStage = "done" /\ OnlyItemErrors) =>
        /\ \A i \in 1 .. Len(rSelected) :
              /\ InList(rSelected[i], rOk.get)
              /\ InList(rSelected[i], rOk.build)
        /\ rRc.build \in {0, 1}
        /\ rRc.write \in {0, 1}

NoStepStarted ==
    /\ rRc = [get |-> -1, build |-> -1, write |-> -1]
    /\ rOk = NoLists /\ rFailed = NoLists
    /\ rPage = 0 /\ rItem = -1 /\ rKey = 1
    /\ rErrors = {}

\* C11: when window resolution fails the run stops before any source is
\* fetched: no harvester, builder or writer step is started, and the exit
\* status is not zero.
C11_InvalidWindowAborts ==
    ~rWindowOk =>
        /\ rStage \in {"window", "done"}
        /\ NoStepStarted
        /\ (rStage = "done" => rExit \notin {-1, 0})

C11_Witness == ~rWindowOk /\ rStage = "done" /\ rExit = 2 /\ NoStepStarted

(***************************************************************************)
(* Claims about the harvesters (checked under SpecHarvest)                 *)
(***************************************************************************)

HarvesterRan == hKind \in Harvesters

ValidEntity(it) ==
    /\ it.title # ""
    /\ it.url # ""
    /\ within_window(it.post_date, HarvestWindow.start, HarvestWindow.end)

\* C12: every entity in a harvester's filtered output has a non-empty
\* title, a non-empty URL and a resolvable date d with
\* window.start <= d <= window.end; an entity failing one of these is
\* dropped.
C12_FilteredEntitiesValid ==
    HarvesterRan => \A i \in 1 .. Len(hOut) : ValidEntity(hOut[i])

\* the positions of kept that repeat the key of an earlier position
RepeatsEarlierKey(kept) ==
    {i \in 1 .. Len(kept) : \E j \in 1 .. i - 1 : kept[j].url = kept[i].url}

\* C13: dedupe is one order-preserving pass keyed on the canonical URL: no
\* two entities of the filtered output share a URL, the entity kept for a
\* URL is the first one seen, the kept entities keep their relative order,
\* and a reported duplicate count is the number of entities removed because
\* an earlier entity had the same key.
C13_DedupeByCanonicalUrl ==
    HarvesterRan =>
        /\ \A i, j \in 1 .. Len(hOut) : i < j => hOut[i].url # hOut[j].url
        /\ hOut = Pick(hKept, {i \in 1 .. Len(hKept) :
                                 /\ i \notin RepeatsEarlierKey(hKept)
                                 /\ \E k \in 1 .. Len(hOut) :
                                       hOut[k].url = hKept[i].url})
        /\ \A n \in hStats.dupes : n = Cardinality(RepeatsEarlierKey(hKept))

\* C14: the reported window statistics account for every raw item exactly
\* once: total seen = kept-after-filter + the sum of the per-reason
\* rejection counts, and, where both figures are reported,
\* kept-after-dedupe = kept-after-filter - duplicates removed.
C14_StatsAccountForEveryItem ==
    HarvesterRan =>
        /\ hStats.total = hStats.kept_after_filter
                          + SumOver(hStats.reasons, DOMAIN hStats.reasons)
        /\ \A k \in hStats.kept_after_dedup : \A n \in hStats.dupes :
              k = hStats.kept_after_filter - n

(***************************************************************************)
(* Claims about the master log writer (checked under SpecMerge)            *)
(***************************************************************************)

MasterLog == mIndex.events

DatedBefore(a, b) ==
    Given(a.date) /\ (~Given(b.date) \/ Val(a.date) < Val(b.date))

\* position of a category in the canonical order: 1..12 for the twelve
\* known values, 13 for any other value
CategoryPlace(cat) ==
    IF InOrder(cat) = {} THEN Len(CATEGORY_ORDER) + 1
    ELSE CHOOSE i \in InOrder(cat) : TRUE

\* as CategoryPlace, with the empty category after every unknown value
CategoryPlaceBlankLast(cat) ==
    IF cat = "" THEN Len(CATEGORY_ORDER) + 2 ELSE CategoryPlace(cat)

TieBrokenBySourceThenTitle(a, b) ==
    \/ StrLess(LowerCodes(a.source_key), LowerCodes(b.source_key))
    \/ /\ LowerCodes(a.source_key) = LowerCodes(b.source_key)
       /\ ~StrLess(LowerCodes(b.title), LowerCodes(a.title))

\* a may stand before b: every unknown category, the empty one included,
\* ranks immediately after the twelfth known value
InKeyOrder(a, b) ==
    \/ DatedBefore(a, b)
    \/ /\ a.date = b.date
       /\ \/ CategoryPlace(a.category) < CategoryPlace(b.category)
          \/ /\ CategoryPlace(a.category) = CategoryPlace(b.category)
             /\ TieBrokenBySourceThenTitle(a, b)

\* a may stand before b: the empty category ranks after the unknown ones
InKeyOrderBlankLast(a, b) ==
    \/ DatedBefore(a, b)
    \/ /\ a.date = b.date
       /\ \/ CategoryPlaceBlankLast(a.category)
                < CategoryPlaceBlankLast(b.category)
          \/ /\ CategoryPlaceBlankLast(a.category)
                   = CategoryPlaceBlankLast(b.category)
             /\ TieBrokenBySourceThenTitle(a, b)

DatesOf(rows) == [i \in 1 .. Len(rows) |-> rows[i].date]

ExampleDates == <<EvFeb01.date, EvFeb03.date, EvUndated.date>>

MergedExample ==
    /\ Len(MasterLog) = 3
    /\ {MasterLog[i].date : i \in 1 .. Len(MasterLog)}
          = {ExampleDates[i] : i \in 1 .. 3}

DedupeKey(r) ==
    [date |-> r.date, title |-> r.title, url |-> r.url,
     summary |-> r.summary, category |-> r.category]

InputKeys == {DedupeKey(mInput[i].ev) : i \in 1 .. Len(mInput)}

\* C16: the master log is de-duplicated: an event record that occurs more
\* than once across the input envelopes (same date, title, URL, summary and
\* category) appears exactly once in the merged log and is counted once in
\* the rollups.
C16_MasterLogDeduplicated ==
    (mIndex.written /\ ~mStrict) =>
        /\ \A k \in InputKeys :
              Cardinality({i \in 1 .. Len(MasterLog) :
                              DedupeKey(MasterLog[i]) = k}) = 1
        /\ mIndex.counts.total = Cardinality(InputKeys)

Rollups == mIndex.counts

TwoSourceExample ==
    /\ Len(mInput) = 2
    /\ mInput[1] = [source_key |-> SrcCongress, ev |-> EvJudicial]
    /\ mInput[2] = [source_key |-> SrcHcr, ev |-> EvExecutive]

\* C17: the rollups of the master index count each merged event exactly
\* once per dimension: for every date, source and category the count is the
\* number of merged events with that value, so by_date, by_source and
\* by_category each sum to the total.  Two sources each contributing one
\* event dated 2025-01-21, in Judicial Developments and in Executive
\* Actions & Orders, give a master log with both events, by_category 1 for
\* each category and by_date 2 for 2025-01-21.
C17_RollupsCountEachEventOnce ==
    mIndex.written =>
        /\ Rollups.total = Len(MasterLog)
        /\ DOMAIN Rollups.by_date
              = {MasterLog[i].date : i \in 1 .. Len(MasterLog)}
        /\ DOMAIN Rollups.by_source
              = {MasterLog[i].source_key : i \in 1 .. Len(MasterLog)}
        /\ DOMAIN Rollups.by_category
              = {MasterLog[i].category : i \in 1 .. Len(MasterLog)}
        /\ \A d \in DOMAIN Rollups.by_date :
              Rollups.by_date[d]
                 = Cardinality({i \in 1 .. Len(MasterLog) :
                                  MasterLog[i].date = d})
        /\ \A k \in DOMAIN Rollups.by_source :
              Rollups.by_source[k]
                 = Cardinality({i \in 1 .. Len(MasterLog) :
                                  MasterLog[i].source_key = k})
        /\ \A c \in DOMAIN Rollups.by_category :
              Rollups.by_category[c]
                 = Cardinality({i \in 1 .. Len(MasterLog) :
                                  MasterLog[i].category = c})
        /\ SumOver(Rollups.by_date, DOMAIN Rollups.by_date) = Rollups.total
        /\ SumOver(Rollups.by_source, DOMAIN Rollups.by_source)
              = Rollups.total
        /\ SumOver(Rollups.by_category, DOMAIN Rollups.by_category)
              = Rollups.total
        /\ TwoSourceExample =>
              /\ Len(MasterLog) = 2
              /\ \E i \in 1 .. 2 : DedupeKey(MasterLog[i]) = DedupeKey(EvJudicial)
              /\ \E i \in 1 .. 2 : DedupeKey(MasterLog[i]) = DedupeKey(EvExecutive)
              /\ Rollups.by_category["Judicial Developments"] = 1
              /\ Rollups.by_category["Executive Actions & Orders"] = 1
              /\ Rollups.by_date[EvJudicial.date] = 2

C17_Witness ==
    /\ mStage = "done"
    /\ TwoSourceExample
    /\ Rollups.total = 2
    /\ Rollups.by_date[EvJudicial.date] = 2

\* the resolver's calendar: the window of week w
ResolverWeek(w) == _compute_window_from_week(w, {})

InResolverWeek(r, w) ==
    \E d \in r.date : ResolverWeek(w).start <= d /\ d <= ResolverWeek(w).end

WeeksWithEvents ==
    {w \in 1 .. MaxWeekNo :
        \E i \in 1 .. Len(MasterLog) : InResolverWeek(MasterLog[i], w)}

EventsOfWeek(w) ==
    Pick(MasterLog,
         {i \in 1 .. Len(MasterLog) : InResolverWeek(MasterLog[i], w)})

\* C18: when the merged events fall in more than one week of the
\* resolver's calendar, exactly one sub-log is emitted for each week that
\* has events, holding exactly the merged events dated within that week, in
\* master-log order, with rollups over those events only; when all merged
\* events fall in a single week no sub-log is emitted.
C18_WeeklySplit ==
    mStage = "done" =>
        IF Cardinality(WeeksWithEvents) > 1
        THEN /\ DOMAIN mWeekly = WeeksWithEvents
             /\ \A w \in WeeksWithEvents :
                   /\ mWeekly[w].week_number = w
                   /\ mWeekly[w].window = ResolverWeek(w)
                   /\ mWeekly[w].events = EventsOfWeek(w)
                   /\ mWeekly[w].counts.total = Len(EventsOfWeek(w))
                   /\ SumOver(mWeekly[w].counts.by_date,
                              DOMAIN mWeekly[w].counts.by_date)
                         = Len(EventsOfWeek(w))
                   /\ SumOver(mWeekly[w].counts.by_source,
                              DOMAIN mWeekly[w].counts.by_source)
                         = Len(EventsOfWeek(w))
                   /\ SumOver(mWeekly[w].counts.by_category,
                              DOMAIN mWeekly[w].counts.by_category)
                         = Len(EventsOfWeek(w))
        ELSE DOMAIN mWeekly = {}

C18_Witness ==
    /\ mStage = "done"
    /\ WeeksWithEvents = {1, 3}
    /\ DOMAIN mWeekly = {1, 3}
    /\ Len(mWeekly[3].events) = 2
    /\ Len(MasterLog) = 3

C18_WitnessSingleWeek ==
    /\ mStage = "done"
    /\ Len(MasterLog) = 3
    /\ WeeksWithEvents = {3}
    /\ DOMAIN mWeekly = {}

(***************************************************************************)
(* Claims about the block parsers (checked under SpecScan)                 *)
(***************************************************************************)

Parsed == sStep = 3

\* the same text with every label written in lower case
Recased(text) ==
    [i \in 1 .. Len(text) |-> Line(Lower(text[i].lab), text[i].val)]

\* C19: within a block the parser recognises the labelled lines Summary:,
\* Source:, Category:, Why Relevant: and the attacks line whatever their
\* letter case: re-casing the labels of a text does not change the parsed
\* field values, for the shared parser and for a builder's own copy.
C19_LabelCaseIgnored ==
    Parsed =>
        /\ sHelper = ParseHelper(Recased(stext))
        /\ sLocal = ParseLocal(Recased(stext))

\* a header line of the form YYYY-MM-DD, em dash, title, with or without
\* the leading === marker
IsDateDashTitle(ln) == ln.lab \in {HdrPlain.lab, HdrMarked.lab} /\ ln.val # ""

HeaderLines == {i \in 1 .. Len(stext) : IsDateDashTitle(stext[i])}

\* C20: the parser yields exactly one event per header line of the form
\* YYYY-MM-DD, em dash, title, whether or not the header carries the
\* optional leading === marker; this holds for the shared parser and for
\* each builder's own copy of the parser.
C20_OneEventPerHeader ==
    Parsed =>
        /\ Len(sHelper) = Cardinality(HeaderLines)
        /\ Len(sLocal) = Cardinality(HeaderLines)

(***************************************************************************)
(* Claims about the parser round trip (checked under SpecRoundTrip)        *)
(***************************************************************************)

\* a token with its surrounding quotes stripped, lower-cased, spaces
\* replaced by underscores
ExpectedToken(t) ==
    LET u == StripChar(t, "\"") IN
    [i \in 1 .. Len(u) |->
        CASE u[i] = "B" -> "b" [] u[i] = " " -> "_" [] OTHER -> u[i]]

ExpectedAttacks == [i \in 1 .. Len(tValues.attacks) |->
                      ExpectedToken(tValues.attacks[i])]

ParsesBack ==
    /\ Len(tEvents) = 1
    /\ tEvents[1].date = tValues.date
    /\ tEvents[1].title = tValues.title
    /\ tEvents[1].summary = tValues.summary
    /\ tEvents[1].category = tValues.category
    /\ tEvents[1].why_relevant = tValues.why_relevant
    /\ tEvents[1].attacks = ExpectedAttacks

NoOuterSpace(s) == s[1] # " " /\ s[Len(s)] # " "

PlainToken(t) ==
    /\ NoOuterSpace(t)
    /\ \A i \in 1 .. Len(t) : t[i] \notin {",", ";"}

\* C21 (as stated): a canonical block built from known single-line values
\* parses back to exactly one event with the same date, title, category and
\* why-relevant, a byte-for-byte equal summary, and the attacks as the
\* normalised tokens.
C21_RoundTrip == tStep = "parsed" => ParsesBack

\* C21 (amended): the round trip holds for values that neither start nor
\* end with white space and for attack tokens that neither start nor end
\* with white space and contain no comma or semicolon.
C21_RoundTripOfTrimmedValues ==
    (/\ tStep = "parsed"
     /\ NoOuterSpace(tValues.title)
     /\ NoOuterSpace(tValues.summary)
     /\ NoOuterSpace(tValues.category)
     /\ \A i \in 1 .. Len(tValues.attacks) : PlainToken(tValues.attacks[i]))
        => ParsesBack

C21_Witness ==
    /\ tStep = "parsed"
    /\ tValues.summary = <<"a", "B">>
    /\ tValues.attacks = <<TokUpperSpace, TokQuoted>>
    /\ tEvents[1].summary = <<"a", "B">>
    /\ tEvents[1].attacks = <<<<"b", "_", "a">>, <<"a">>>>

(***************************************************************************)
(* Claims about the attacks field (checked under SpecAttacks)              *)
(***************************************************************************)

IsListOfStrings(v) ==
    /\ v.kind = "list"
    /\ \A i \in 1 .. Len(v.items) : v.items[i] \in Seq({" ", "a", "b", "B", "_", "\"", ",", "[", "]"})

\* C22: every event written to a per-source envelope by a builder, and
\* every event written to the master index, carries an attacks field that
\* is a list (possibly empty), never absent, null or a bare string,
\* whatever the reply contained.
C22_AttacksAlwaysList ==
    /\ (aStep \in {"envelope", "indexed"} /\ aBuilder \in {"hcr", "shadow"})
          => IsListOfStrings(aStored)
    /\ aStep = "indexed" => IsListOfStrings(aIndexed)

C22_Witness ==
    /\ aStep = "indexed"
    /\ aBuilder = "shadow"
    /\ aLine = {}
    /\ aStored = JList(<<>>)
    /\ aIndexed = JList(<<>>)

C22_WitnessBareString ==
    /\ aStep = "indexed"
    /\ aStored = JStr(TokUpperSpace)
    /\ aIndexed = JList(<<TokUpperSpace>>)

(***************************************************************************)
(* Further claims about the builders (checked under SpecExtract)           *)
(***************************************************************************)

\* C23: every completed builder run leaves one envelope for its source and
\* window, written by that run and holding source, window, events and
\* noncompliant, also when the run extracted zero events, so the envelope
\* on disk reflects the latest run.
C23_EnvelopeWrittenByEveryRun ==
    pc = "done" =>
        /\ envelope.written
        /\ envelope.events = all_events
        /\ envelope.has_noncompliant
        /\ envelope.noncompliant = noncompliant

(***************************************************************************)
(* Claims about the exit codes of the runners                              *)
(***************************************************************************)

BuilderSucceeded(key) == uWorld[key] = "returns"

\* C24: the build runner exits 0 exactly when every selected source
\* succeeded, and non-zero when any of them failed, a source whose required
\* input could not be loaded included.
C24_ExitCodeTellsFailure ==
    uExit # {} =>
        (uExit = {0} <=> \A i \in DOMAIN uSelected : BuilderSucceeded(uSelected[i]))

(***************************************************************************)
(* Claims about the diagnostic artifacts                                   *)
(***************************************************************************)

\* the policy text in force: the explicit one, else the environment's
ConfiguredPolicy ==
    IF dConfig.explicit \notin {{}, {""}} THEN dConfig.explicit
    ELSE IF dConfig.env \notin {{}, {""}} THEN dConfig.env
    ELSE {}

PolicyInForce ==
    IF \E p \in ConfiguredPolicy : p \in PolicyNames \/ p = " Always "
    THEN CHOOSE n \in PolicyNames :
            \E p \in ConfiguredPolicy : p = n \/ (p = " Always " /\ n = "always")
    ELSE "failures"

\* the configured probability, clamped to [0, 1]
ClampedRate ==
    LET s == IF \E r \in dConfig.sample : r.ok
             THEN (CHOOSE r \in dConfig.sample : TRUE).v
             ELSE DEFAULT_SAMPLE
    IN  IF s < 0 THEN 0 ELSE IF s > 100 THEN 100 ELSE s

ItemFailed == dItem.fetch = "failed" \/ dItem.first = "fails_scan"

SuccessDrawn == dItem.random < ClampedRate

C25_WitnessSample ==
    /\ dStep = "done"
    /\ dWriter.policy = "sample"
    /\ ~ItemFailed
    /\ dFiles # {}
    /\ dConfig.sample = {Rate(150)}

(***************************************************************************)
(* Claims about the week of a date                                         *)
(***************************************************************************)

\* the week numbers whose windows could reach the explored dates
WeekNumbers == 1 .. (MaxDaysAfter \div 7 + 3)

WindowOfWeek(n) == resolve_date_window({}, {}, {}, {n})

InWindowOfWeek(d, n) == WindowOfWeek(n).start <= d /\ d <= WindowOfWeek(n).end

\* C26: for a date d on or after 2025-01-20 dc_week_for returns (n, s, e)
\* with s <= d <= e and (s, e) the resolver's window of week n; the windows
\* of the weeks are pairwise disjoint and cover every date from 2025-01-20
\* on; a date before 2025-01-20 belongs to no week.
C26_WeekMatchesResolver ==
    kStep = "resolved" =>
        /\ Cardinality(kWeek) <= 1
        /\ kDate >= INAUGURATION_DAY =>
              /\ kWeek # {}
              /\ \A wk \in kWeek :
                    /\ wk.start <= kDate /\ kDate <= wk.end
                    /\ kWindow = Window(wk.start, wk.end)
                    /\ \A n \in WeekNumbers : InWindowOfWeek(kDate, n) <=> n = wk.num
        /\ kDate < INAUGURATION_DAY =>
              /\ kWeek = {}
              /\ \A n \in WeekNumbers : ~InWindowOfWeek(kDate, n)
        /\ \A m, n \in WeekNumbers :
              m < n => WindowOfWeek(m).end < WindowOfWeek(n).start

\* the first Saturday: the first day of week 2
C26_Witness ==
    /\ kStep = "resolved"
    /\ kDate = FIRST_SATURDAY
    /\ kWindow = Window(FIRST_SATURDAY, FIRST_SATURDAY + 6)

\* a date before the inauguration has no week
C26_WitnessBefore ==
    /\ kStep = "resolved"
    /\ kDate < INAUGURATION_DAY
    /\ kWeek = {}

(***************************************************************************)
(* Claims about the order of the stages of the one-shot run                *)
(***************************************************************************)

\* the stages in their order; "window" precedes and "done" follows them
StageRank(st) ==
    CASE st = "window" -> 0
      [] st = "get" -> 1
      [] st = "build" -> 2
      [] st = "write" -> 3
      [] OTHER -> 4

\* one step of the run: a stage is entered from an earlier one only, build
\* only with the harvest at rc 0, write only with the harvest at rc 0 and
\* the build at rc 0 or an event file on disk; the run that ends with a stage
\* not started reports it with rc 99 and exits with 1
StageStep ==
    /\ StageRank(rStage') >= StageRank(rStage)
    /\ (rStage' = "build" /\ rStage # "build") =>
            rStage = "get" /\ rRc'.get = 0
    /\ (rStage' = "write") =>
            rStage = "build" /\ rRc'.get = 0 /\ (rRc'.build = 0 \/ rEventJson' # {})
    /\ (rStage = "get" /\ rStage' = "done") =>
            rRc'.build = 99 /\ rRc'.write = 99 /\ rExit' = 1
    /\ (rStage = "build" /\ rStage' = "done") =>
            rRc'.write = 99 /\ rExit' = 1

\* C27: the stages of the one-shot run start in the order harvest, build,
\* write, each at most once; build only after the harvest exited with 0;
\* write only after the harvest exited with 0 and the build exited with 0 or
\* an event file for the window exists; a stage not started is reported with
\* rc 99 and the run exits with 1.
C27_StagesInOrder == [][StageStep]_vars

\* the build failed with no event file on disk: the writer is not started
C27_Witness ==
    /\ rStage = "done"
    /\ rRc = [get |-> 0, build |-> 1, write |-> 99]
    /\ rExit = 1

\* the build failed, the writer ran on the event file of an earlier run
C27_WitnessStaleFile ==
    /\ rStage = "done"
    /\ rRc.get = 0 /\ rRc.build = 1 /\ rRc.write \in {0, 1}
    /\ rEventJson = {"stale"}

(***************************************************************************)
(* Claims about the builders' account of their items                       *)
(***************************************************************************)

AccountEventsOf(i) == {k \in 1 .. Len(cEvents) : cEvents[k] = i}

AccountEntriesOf(i) == {k \in 1 .. Len(cNoncompliant) : cNoncompliant[k].idx = i}

\* C28: after a builder run every selected item either contributed at
\* least one event or appears exactly once in the noncompliant list with a
\* reason, never both and never neither.
C28_EveryItemAccountedOnce ==
    cStep = "done" =>
        \A i \in 1 .. Len(cItems) :
            \/ /\ AccountEventsOf(i) # {}
               /\ AccountEntriesOf(i) = {}
            \/ /\ AccountEventsOf(i) = {}
               /\ Cardinality(AccountEntriesOf(i)) = 1
               /\ \A k \in AccountEntriesOf(i) : cNoncompliant[k].reason # ""

(***************************************************************************)
(* Claims about the page walks                                             *)
(***************************************************************************)

\* C29: every harvester's page walk ends after a bounded number of
\* requests, whatever the server answers, a server that always returns a
\* full page or never reports a page total included.
C29_WalkTerminates == <>(lStep = "done")

(***************************************************************************)
(* Claims about the sources of a restricted run                            *)
(***************************************************************************)

\* the sources named in only, or all when only is absent, minus those
\* named in skip
SelectedSources == (IF oOnly # {} THEN oOnly ELSE Builders) \ oSkip

\* C30: a run restricted with only/skip merges only the selected sources:
\* the master log holds no event of a source excluded from the run, and the
\* harvest, build and write stages resolve the same set of sources.
C30_OnlySelectedSourcesMerged ==
    oStep = "done" =>
        /\ oMerged \subseteq SelectedSources
        /\ oHarvested = SelectedSources
        /\ oBuilt = SelectedSources

====
